---- MODULE Spec2Model ----
(***************************************************************************)
(* Borehole water-quality monitor: the Bayesian network of                 *)
(* backend/bayesian_model.py, the exact inference its methods request from *)
(* the inference engine, and the request handlers of backend/main.py and   *)
(* backend/app.py that call those methods on the one shared model.         *)
(*                                                                         *)
(* Probabilities are exact rationals.  A CPD stores integer numerators     *)
(* over a per-table denominator `den` (0.95 is 19 over 20), unnormalised   *)
(* factors are integer tables, and a normalised probability is a reduced   *)
(* fraction <<n, d>>.  The denominators are the smallest that keep every   *)
(* table integral, so that every intermediate sum stays below 2^31.        *)
(***************************************************************************)
EXTENDS Integers, Sequences, FiniteSets, TLC

VARIABLES model, pc, req, work, res

vars == <<model, pc, req, work, res>>

-----------------------------------------------------------------------------
(* The network built by _build_network.                                    *)

Nodes == {"Rainfall", "Turbidity", "Surface_Runoff", "Latrine_Dist",
          "Pump_Age", "Pump_Failure", "Contamination"}

Edges == {<<"Rainfall", "Turbidity">>,
          <<"Rainfall", "Surface_Runoff">>,
          <<"Turbidity", "Contamination">>,
          <<"Surface_Runoff", "Contamination">>,
          <<"Latrine_Dist", "Contamination">>,
          <<"Pump_Age", "Pump_Failure">>}

\* TabularCPD(variable, variable_card, values, evidence, evidence_card):
\* values[row][column], row = state of the variable, column = the parents'
\* states in mixed radix, the first parent most significant.
cpd_rainfall ==
    [variable |-> "Rainfall", variable_card |-> 3, den |-> 10,
     values |-> << <<5>>, <<3>>, <<2>> >>,
     evidence |-> << >>, evidence_card |-> << >>]

cpd_latrine ==
    [variable |-> "Latrine_Dist", variable_card |-> 2, den |-> 10,
     values |-> << <<7>>, <<3>> >>,
     evidence |-> << >>, evidence_card |-> << >>]

cpd_pump_age ==
    [variable |-> "Pump_Age", variable_card |-> 3, den |-> 10,
     values |-> << <<3>>, <<5>>, <<2>> >>,
     evidence |-> << >>, evidence_card |-> << >>]

\* Faulty variant of the table: a state that no rainfall ever produces.
cpd_turbidity_with_impossible_state ==
    [variable |-> "Turbidity", variable_card |-> 3, den |-> 100,
     values |-> << <<90, 50, 10>>,
                   << 0,  0,  0>>,
                   <<10, 50, 90>> >>,
     evidence |-> <<"Rainfall">>, evidence_card |-> <<3>>]

cpd_turbidity ==
    [variable |-> "Turbidity", variable_card |-> 3, den |-> 100,
     values |-> << <<90, 50, 10>>,
                   << 8, 35, 30>>,
                   << 2, 15, 60>> >>,
     evidence |-> <<"Rainfall">>, evidence_card |-> <<3>>]

\* Faulty variant: the two rows are exchanged, so that runoff is likeliest
\* after no rain.
cpd_runoff_rows_exchanged ==
    [variable |-> "Surface_Runoff", variable_card |-> 2, den |-> 20,
     values |-> << << 1, 12, 18>>,
                   <<19,  8,  2>> >>,
     evidence |-> <<"Rainfall">>, evidence_card |-> <<3>>]

cpd_runoff ==
    [variable |-> "Surface_Runoff", variable_card |-> 2, den |-> 20,
     values |-> << <<19,  8,  2>>,
                   << 1, 12, 18>> >>,
     evidence |-> <<"Rainfall">>, evidence_card |-> <<3>>]

cpd_pump_failure ==
    [variable |-> "Pump_Failure", variable_card |-> 2, den |-> 50,
     values |-> << <<49, 45, 35>>,
                   << 1,  5, 15>> >>,
     evidence |-> <<"Pump_Age">>, evidence_card |-> <<3>>]

\* Faulty variant of the table: 0.01 typed as 0.02 in the first column,
\* which then sums to 1.01.
cpd_contamination_mistyped ==
    [variable |-> "Contamination", variable_card |-> 2, den |-> 100,
     values |-> << <<99, 95, 85, 70,  80, 60, 50, 30,  40, 20, 15,  5>>,
                   << 2,  5, 15, 30,  20, 40, 50, 70,  60, 80, 85, 95>> >>,
     evidence |-> <<"Turbidity", "Surface_Runoff", "Latrine_Dist">>,
     evidence_card |-> <<3, 2, 2>>]

cpd_contamination ==
    [variable |-> "Contamination", variable_card |-> 2, den |-> 100,
     values |-> << <<99, 95, 85, 70,  80, 60, 50, 30,  40, 20, 15,  5>>,
                   << 1,  5, 15, 30,  20, 40, 50, 70,  60, 80, 85, 95>> >>,
     evidence |-> <<"Turbidity", "Surface_Runoff", "Latrine_Dist">>,
     evidence_card |-> <<3, 2, 2>>]

\* model.add_cpds(*cpds): each table is filed under its variable, a later
\* table for the same variable replacing the earlier.
add_cpds(cpds) ==
    [v \in {cpds[i].variable : i \in DOMAIN cpds} |->
       LET last == CHOOSE i \in DOMAIN cpds :
                     /\ cpds[i].variable = v
                     /\ \A j \in DOMAIN cpds : cpds[j].variable = v => j <= i
       IN cpds[last]]

\* self.model after add_cpds: the edge list and the tables added.
BuiltNetwork ==
    [edges |-> Edges,
     cpds  |-> add_cpds(<<cpd_rainfall, cpd_latrine, cpd_pump_age, cpd_turbidity,
                          cpd_runoff, cpd_pump_failure, cpd_contamination>>)]

\* self.model.nodes()
NodesOf(m) == DOMAIN m.cpds

Card(m, v) == m.cpds[v].variable_card

-----------------------------------------------------------------------------
(* Exact rationals.                                                        *)

RECURSIVE Gcd(_, _)
Gcd(a, b) == IF b = 0 THEN a ELSE Gcd(b, a % b)

\* n/d in lowest terms, d > 0.
Frac(n, d) == LET g == Gcd(n, d) IN <<n \div g, d \div g>>

One == <<1, 1>>

\* 1 - p for a fraction in lowest terms.
Complement(p) == <<p[2] - p[1], p[2]>>

-----------------------------------------------------------------------------
(* Factors: a scope (a set of variables) and a table over the assignments  *)
(* of the scope.  card maps every variable in scope to its cardinality.    *)

SeqRange(s) == {s[i] : i \in DOMAIN s}

Assignments(card) ==
    {a \in [DOMAIN card -> 0 .. 2] : \A v \in DOMAIN card : a[v] < card[v]}

Restrict(a, S) == [v \in S |-> a[v]]

RECURSIVE SumOver(_, _)
SumOver(f, S) ==
    IF S = {} THEN 0
    ELSE LET x == CHOOSE y \in S : TRUE IN f[x] + SumOver(f, S \ {x})

RECURSIVE Column(_, _, _)
\* Faulty variant: the first parent varies fastest along the columns.
Column_first_parent_fastest(cpd, a, i) ==
    LET RECURSIVE Below(_)
        Below(j) == IF j = 0 THEN 1 ELSE cpd.evidence_card[j] * Below(j - 1)
        RECURSIVE From(_)
        From(k) == IF k > Len(cpd.evidence) THEN 0
                   ELSE a[cpd.evidence[k]] * Below(k - 1) + From(k + 1)
    IN From(i)

\* Column of a parent assignment in a TabularCPD: mixed radix over the
\* evidence list, first parent most significant.
Column(cpd, a, i) ==
    IF i > Len(cpd.evidence) THEN 0
    ELSE LET rest == Column(cpd, a, i + 1)
             stride == IF i = Len(cpd.evidence) THEN 1
                       ELSE LET RECURSIVE Prod(_)
                                Prod(j) == IF j > Len(cpd.evidence) THEN 1
                                           ELSE cpd.evidence_card[j] * Prod(j + 1)
                            IN Prod(i + 1)
         IN a[cpd.evidence[i]] * stride + rest

\* cpd.to_factor(): the CPD as a factor over {variable} \cup parents.
ToFactor(cpd) ==
    LET card == [v \in {cpd.variable} \cup SeqRange(cpd.evidence) |->
                   IF v = cpd.variable THEN cpd.variable_card
                   ELSE cpd.evidence_card[CHOOSE i \in DOMAIN cpd.evidence :
                                                 cpd.evidence[i] = v]]
    IN [card |-> card,
        val  |-> [a \in Assignments(card) |->
                    cpd.values[a[cpd.variable] + 1][Column(cpd, a, 1) + 1]]]

Scope(f) == DOMAIN f.card

-----------------------------------------------------------------------------
(* Factor algebra used by the inference engine.                            *)

RECURSIVE ProductAt(_, _)
ProductAt(F, a) ==
    IF F = {} THEN 1
    ELSE LET f == CHOOSE g \in F : TRUE
         IN f.val[Restrict(a, Scope(f))] * ProductAt(F \ {f}, a)

\* factor_product(*F): scope = union of the scopes, value = product of the
\* values of the members at the restricted assignment.
FactorProduct(F) ==
    LET card == [v \in UNION {Scope(f) : f \in F} |->
                   (CHOOSE f \in F : v \in Scope(f)).card[v]]
    IN [card |-> card,
        val  |-> [a \in Assignments(card) |-> ProductAt(F, a)]]

\* Faulty marginalisation: keeps the slice v = 0 instead of summing.
MarginalizeFirstSlice(f, v) ==
    LET card == [w \in Scope(f) \ {v} |-> f.card[w]]
    IN [card |-> card,
        val  |-> [a \in Assignments(card) |->
                    f.val[[w \in Scope(f) |-> IF w = v THEN 0 ELSE a[w]]]]]

\* phi.marginalize([v], inplace=False): sums v out of the table.
Marginalize(f, v) ==
    LET card == [w \in Scope(f) \ {v} |-> f.card[w]]
    IN [card |-> card,
        val  |-> [a \in Assignments(card) |->
                    SumOver([s \in 0 .. f.card[v] - 1 |->
                               f.val[[w \in Scope(f) |->
                                        IF w = v THEN s ELSE a[w]]]],
                            0 .. f.card[v] - 1)]]

\* An evidence state indexes the table axis the way the array library
\* indexes: 0 .. card-1 directly, -card .. -1 counted from the end; any
\* other index is an IndexError.
IndexInBounds(s, card) == -card <= s /\ s < card

AxisIndex(s, card) == IF s < 0 THEN s + card ELSE s

\* factor.reduce([(v, s)], inplace=False): the slice v = s, v leaves the scope.
Reduce(f, v, s) ==
    LET card == [w \in Scope(f) \ {v} |-> f.card[w]]
        i    == AxisIndex(s, f.card[v])
    IN [card |-> card,
        val  |-> [a \in Assignments(card) |->
                    f.val[[w \in Scope(f) |-> IF w = v THEN i ELSE a[w]]]]]

RECURSIVE ReduceAll(_, _, _)
ReduceAll(f, evidence, E) ==
    IF E = {} THEN f
    ELSE LET v == CHOOSE w \in E : TRUE
         IN ReduceAll(Reduce(f, v, evidence[v]), evidence, E \ {v})

\* The working factors of a query: every CPD of the network as a factor,
\* each reduced by the evidence on the variables of its scope.  A factor
\* whose scope becomes empty is filed under no variable and so is dropped.
WorkingFactors(m, evidence) ==
    LET reduced == {ReduceAll(ToFactor(m.cpds[n]), evidence,
                              Scope(ToFactor(m.cpds[n])) \cap DOMAIN evidence) :
                      n \in NodesOf(m)}
    IN {f \in reduced : Scope(f) # {}}

\* One elimination step: the factors mentioning v are multiplied, v is summed
\* out, the consumed factors leave the list and the result (unless its scope
\* is empty) joins it.
Eliminate(W, v) ==
    LET used == {f \in W : v \in Scope(f)}
        phi  == Marginalize(FactorProduct(used), v)
    IN IF used = {} THEN W
       ELSE (W \ used) \cup (IF Scope(phi) = {} THEN {} ELSE {phi})

\* Faulty normalisation: divides by the largest value, not by the sum.
NormalizeByLargest(f, target) ==
    LET largest == CHOOSE x \in {f.val[a] : a \in DOMAIN f.val} :
                      \A a \in DOMAIN f.val : f.val[a] <= x
    IN [s \in 0 .. f.card[target] - 1 |->
          Frac(f.val[[w \in {target} |-> s]], largest)]

\* What the float division 0.0 / 0.0 gives: not a number.  Every comparison
\* with it is false.
NaN == <<0, 0>>

\* factor.normalize(): every value over the sum of the table, as a function
\* from the target's state to a probability.  The sum is not examined: a
\* table of zeros divides to NaN.
Normalize(f, target) ==
    LET total == SumOver(f.val, DOMAIN f.val)
    IN [s \in 0 .. f.card[target] - 1 |->
          IF total = 0 THEN NaN ELSE Frac(f.val[[w \in {target} |-> s]], total)]

\* The variables to eliminate: neither queried nor observed.
ToEliminate(m, variables, evidence) ==
    NodesOf(m) \ (variables \cup DOMAIN evidence)

\* Size of the table an elimination of v would build.
RECURSIVE CardProduct(_, _)
CardProduct(card, S) ==
    IF S = {} THEN 1
    ELSE LET v == CHOOSE w \in S : TRUE IN card[v] * CardProduct(card, S \ {v})

EliminationCost(m, W, v) ==
    CardProduct([n \in NodesOf(m) |-> Card(m, n)],
                UNION {Scope(f) : f \in {g \in W : v \in Scope(g)}})

\* The engine's greedy order: at each step a cheapest remaining variable.
RECURSIVE EliminateAll(_, _, _)
EliminateAll(m, W, R) ==
    IF R = {} THEN W
    ELSE LET v == CHOOSE x \in R :
                    \A y \in R : EliminationCost(m, W, x) <= EliminationCost(m, W, y)
         IN EliminateAll(m, Eliminate(W, v), R \ {v})

\* How inference_engine.query(variables=[target], evidence) fails, or "ok":
\* a variable both queried and observed is refused; a name outside the
\* network is refused; an evidence state that does not index its table axis
\* raises IndexError.  No other check is made on the states.
QueryError(m, target, evidence) ==
    IF target \in DOMAIN evidence THEN "ValueError_both"
    ELSE IF ~ (({target} \cup DOMAIN evidence) \subseteq NodesOf(m))
         THEN "ValueError_unknown"
    ELSE IF \E v \in DOMAIN evidence : ~ IndexInBounds(evidence[v], Card(m, v))
         THEN "IndexError"
    ELSE "ok"

\* result.values of an accepted query: reduce by the evidence, eliminate
\* every other variable, multiply what is left, normalise.
FinalFactor(m, target, evidence) ==
    LET W0 == WorkingFactors(m, evidence)
        W1 == EliminateAll(m, W0, ToEliminate(m, {target}, evidence))
    IN FactorProduct(W1)

QueryValues(m, target, evidence) ==
    Normalize(FinalFactor(m, target, evidence), target)

Raised(e) == [status |-> e, value |-> << >>]

Returned(v) == [status |-> "ok", value |-> v]

\* Faulty variant: evidence on the queried variable is dropped and the
\* query answered.
query_resolving_overlap(m, target, evidence) ==
    LET kept == [v \in DOMAIN evidence \ {target} |-> evidence[v]]
    IN IF QueryError(m, target, kept) # "ok"
       THEN Raised(QueryError(m, target, kept))
       ELSE Returned(QueryValues(m, target, kept))

\* self.inference_engine.query(variables=[target], evidence=evidence):
\* raises, or returns the target's posterior (result.values).
query(m, target, evidence) ==
    IF QueryError(m, target, evidence) # "ok"
    THEN Raised(QueryError(m, target, evidence))
    ELSE Returned(QueryValues(m, target, evidence))

-----------------------------------------------------------------------------
(* Differences of probabilities.  Two posteriors have denominators up to   *)
(* a few million, so their difference is kept as a fraction of unbounded   *)
(* naturals: little-endian digit sequences in base Base, zero = << >>.     *)

Base == 100 * 100

RECURSIVE BigOf(_)
BigOf(n) == IF n = 0 THEN << >> ELSE <<n % Base>> \o BigOf(n \div Base)

RECURSIVE BigTrim(_)
BigTrim(a) ==
    IF a = << >> THEN a
    ELSE IF a[Len(a)] = 0 THEN BigTrim(SubSeq(a, 1, Len(a) - 1)) ELSE a

RECURSIVE BigAddC(_, _, _)
BigAddC(a, b, c) ==
    IF a = << >> /\ b = << >> THEN (IF c = 0 THEN << >> ELSE <<c>>)
    ELSE LET x == IF a = << >> THEN 0 ELSE Head(a)
             y == IF b = << >> THEN 0 ELSE Head(b)
             t == x + y + c
         IN <<t % Base>> \o BigAddC(IF a = << >> THEN a ELSE Tail(a),
                                    IF b = << >> THEN b ELSE Tail(b),
                                    t \div Base)

BigAdd(a, b) == BigAddC(a, b, 0)

RECURSIVE BigMulDigit(_, _, _)
BigMulDigit(a, m, c) ==
    IF a = << >> THEN (IF c = 0 THEN << >> ELSE <<c>>)
    ELSE LET t == Head(a) * m + c
         IN <<t % Base>> \o BigMulDigit(Tail(a), m, t \div Base)

RECURSIVE BigMul(_, _)
BigMul(a, b) ==
    IF b = << >> \/ a = << >> THEN << >>
    ELSE LET rest == BigMul(a, Tail(b))
         IN BigTrim(BigAdd(BigMulDigit(a, Head(b), 0),
                           IF rest = << >> THEN rest ELSE <<0>> \o rest))

\* a < b
RECURSIVE BigLess(_, _)
BigLess(a, b) ==
    IF Len(a) # Len(b) THEN Len(a) < Len(b)
    ELSE IF a = << >> THEN FALSE
    ELSE IF a[Len(a)] # b[Len(b)] THEN a[Len(a)] < b[Len(b)]
    ELSE BigLess(BigTrim(SubSeq(a, 1, Len(a) - 1)),
                 BigTrim(SubSeq(b, 1, Len(b) - 1)))

\* a - b for a >= b
RECURSIVE BigSubB(_, _, _)
BigSubB(a, b, w) ==
    IF a = << >> THEN << >>
    ELSE LET y == IF b = << >> THEN 0 ELSE Head(b)
             t == Head(a) - y - w
         IN <<IF t < 0 THEN t + Base ELSE t>>
            \o BigSubB(Tail(a), IF b = << >> THEN b ELSE Tail(b),
                       IF t < 0 THEN 1 ELSE 0)

BigSub(a, b) == BigTrim(BigSubB(a, b, 0))

\* abs(q - p) for probabilities p, q: <<numerator, denominator>>, not reduced.
AbsDiff(q, p) ==
    LET x == BigMul(BigOf(q[1]), BigOf(p[2]))
        y == BigMul(BigOf(p[1]), BigOf(q[2]))
    IN <<IF BigLess(x, y) THEN BigSub(y, x) ELSE BigSub(x, y),
         BigMul(BigOf(q[2]), BigOf(p[2]))>>

\* Order and equality of such fractions (denominators positive).
RatLess(x, y) == BigLess(BigMul(x[1], y[2]), BigMul(y[1], x[2]))

RatEq(x, y) == BigMul(x[1], y[2]) = BigMul(y[1], x[2])

RatZero == <<BigOf(0), BigOf(1)>>

\* p < a/b for a probability p in lowest terms and small a, b.
FracLess(p, a, b) == p[1] * b < a * p[2]

-----------------------------------------------------------------------------------------------------------------------------------------------------
(* The methods of BoreholeWaterQualityModel, as functions of the network   *)
(* they read and of their arguments.  A raised exception is a result whose *)
(* status names it; a returned value has status "ok".                      *)

\* Faulty variant: the bounds of the bands belong to the lower band.
categorize_risk_inclusive(prob) ==
    IF ~ FracLess(<<1, 5>>, prob[1], prob[2]) THEN "LOW"
    ELSE IF ~ FracLess(<<1, 2>>, prob[1], prob[2]) THEN "MODERATE"
    ELSE IF ~ FracLess(<<4, 5>>, prob[1], prob[2]) THEN "HIGH"
    ELSE "CRITICAL"

categorize_risk(prob) ==
    IF FracLess(prob, 1, 5) THEN "LOW"
    ELSE IF FracLess(prob, 1, 2) THEN "MODERATE"
    ELSE IF FracLess(prob, 4, 5) THEN "HIGH"
    ELSE "CRITICAL"

\* Faulty variant: both probabilities are read from index 1.
predict_contamination_risk_same_index(m, evidence) ==
    LET result == query(m, "Contamination", evidence)
        probs  == result.value
    IN IF result.status # "ok" THEN result
       ELSE Returned([safe_probability          |-> probs[1],
                      contamination_probability |-> probs[1],
                      risk_level                |-> categorize_risk(probs[1]),
                      evidence_used             |-> evidence])

predict_contamination_risk(m, evidence) ==
    LET result == query(m, "Contamination", evidence)
        probs  == result.value
    IN IF result.status # "ok" THEN result
       ELSE Returned([safe_probability          |-> probs[0],
                      contamination_probability |-> probs[1],
                      risk_level                |-> categorize_risk(probs[1]),
                      evidence_used             |-> evidence])

\* Faulty variant: the two rows of the result are read in the wrong order.
predict_pump_status_swapped(m, pump_age) ==
    LET result == query(m, "Pump_Failure", [v \in {"Pump_Age"} |-> pump_age])
        probs  == result.value
    IN IF result.status # "ok" THEN result
       ELSE Returned([working_probability |-> probs[1],
                      failure_probability |-> probs[0],
                      maintenance_needed  |-> FracLess(<<3, 20>>, probs[0][1], probs[0][2])])

predict_pump_status(m, pump_age) ==
    LET result == query(m, "Pump_Failure", [v \in {"Pump_Age"} |-> pump_age])
        probs  == result.value
    IN IF result.status # "ok" THEN result
       ELSE Returned([working_probability |-> probs[0],
                      failure_probability |-> probs[1],
                      maintenance_needed  |-> FracLess(<<3, 20>>, probs[1][1], probs[1][2])])

\* int(np.argmax(values)): the first index holding the maximum.
AsRat(p) == <<BigOf(p[1]), BigOf(p[2])>>

ArgMax(values) ==
    CHOOSE i \in DOMAIN values :
        /\ \A j \in DOMAIN values : ~ RatLess(AsRat(values[i]), AsRat(values[j]))
        /\ \A j \in DOMAIN values : j < i => RatLess(AsRat(values[j]), AsRat(values[i]))

\* Faulty variant: of equal maxima the last index is taken.
get_most_likely_scenario_last_max(m, evidence) ==
    LET unobserved == NodesOf(m) \ DOMAIN evidence
        failed     == {var \in unobserved : QueryError(m, var, evidence) # "ok"}
        ArgMaxLast(values) ==
            CHOOSE i \in DOMAIN values :
                /\ \A j \in DOMAIN values : ~ RatLess(AsRat(values[i]), AsRat(values[j]))
                /\ \A j \in DOMAIN values : j > i => RatLess(AsRat(values[j]), AsRat(values[i]))
    IN IF failed # {}
       THEN query(m, CHOOSE var \in failed : TRUE, evidence)
       ELSE Returned([var \in unobserved |-> ArgMaxLast(query(m, var, evidence).value)])

\* One query per unobserved node; with no unobserved node no query is made
\* and the empty mapping is returned.  Every query of the loop has the same
\* evidence, so when one raises the first one does.
get_most_likely_scenario(m, evidence) ==
    LET unobserved == NodesOf(m) \ DOMAIN evidence
        failed     == {var \in unobserved : QueryError(m, var, evidence) # "ok"}
    IN IF failed # {}
       THEN query(m, CHOOSE var \in failed : TRUE, evidence)
       ELSE Returned([var \in unobserved |-> ArgMax(query(m, var, evidence).value)])

\* Faulty variant: Turbidity is listed with two states.
StateLabels_two_turbidity_states ==
    [Rainfall       |-> <<"Low", "Medium", "High">>,
     Turbidity      |-> <<"Clear", "Cloudy">>,
     Surface_Runoff |-> <<"No", "Yes">>,
     Latrine_Dist   |-> <<"Safe (>30m)", "Risky (<30m)">>,
     Pump_Age       |-> <<"New (<2yr)", "Medium (2-5yr)", "Old (>5yr)">>,
     Pump_Failure   |-> <<"Working", "Failed">>,
     Contamination  |-> <<"Safe", "Contaminated">>]

StateLabels ==
    [Rainfall       |-> <<"Low", "Medium", "High">>,
     Turbidity      |-> <<"Clear", "Slightly Cloudy", "Very Cloudy">>,
     Surface_Runoff |-> <<"No", "Yes">>,
     Latrine_Dist   |-> <<"Safe (>30m)", "Risky (<30m)">>,
     Pump_Age       |-> <<"New (<2yr)", "Medium (2-5yr)", "Old (>5yr)">>,
     Pump_Failure   |-> <<"Working", "Failed">>,
     Contamination  |-> <<"Safe", "Contaminated">>]

get_variable_info == [var \in DOMAIN StateLabels |-> [states |-> StateLabels[var]]]

RECURSIVE RatMax(_)
RatMax(S) ==
    LET x == CHOOSE y \in S : TRUE
    IN IF S = {x} THEN x
       ELSE LET r == RatMax(S \ {x}) IN IF RatLess(r, x) THEN x ELSE r

\* The perturbed evidence of one variable: every state index of its label
\* list other than the observed state, the other entries kept.
\* Faulty variant: the observed state is queried again with the others.
Perturbed_with_observed_state(evidence, var) ==
    {[evidence EXCEPT ![var] = state] :
        state \in 0 .. Len(get_variable_info[var].states) - 1}

Perturbed(evidence, var) ==
    {[evidence EXCEPT ![var] = state] :
        state \in {s \in 0 .. Len(get_variable_info[var].states) - 1 : s # evidence[var]}}

\* Faulty variant: a variable whose flips move nothing is left out.
sensitivity_analysis_skipping_unmoved(m, target, evidence) ==
    LET base_result == query(m, target, evidence)
        base_prob   == base_result.value[1]
        failed == {e \in UNION {Perturbed(evidence, var) : var \in DOMAIN evidence} :
                     QueryError(m, target, e) # "ok"}
        Score(var) ==
            LET impacts == {AbsDiff(query(m, target, e).value[1], base_prob) :
                              e \in Perturbed(evidence, var)}
            IN IF impacts = {} THEN RatZero ELSE RatMax(impacts)
    IN IF base_result.status # "ok" THEN base_result
       ELSE IF failed # {} THEN query(m, target, CHOOSE e \in failed : TRUE)
       ELSE Returned([var \in {x \in DOMAIN evidence : ~ RatEq(Score(x), RatZero)} |->
                        Score(var)])

\* Faulty variant: the base probability is not subtracted.
sensitivity_analysis_without_base(m, target, evidence) ==
    LET base_result == query(m, target, evidence)
        failed == {e \in UNION {Perturbed(evidence, var) : var \in DOMAIN evidence} :
                     QueryError(m, target, e) # "ok"}
    IN IF base_result.status # "ok" THEN base_result
       ELSE IF failed # {} THEN query(m, target, CHOOSE e \in failed : TRUE)
       ELSE Returned(
              [var \in DOMAIN evidence |->
                 LET impacts == {AbsDiff(query(m, target, e).value[1], <<0, 1>>) :
                                   e \in Perturbed(evidence, var)}
                 IN IF impacts = {} THEN RatZero ELSE RatMax(impacts)])

\* Faulty variant: only the first other state of each variable is tried.
sensitivity_analysis_first_flip(m, target, evidence) ==
    LET base_result == query(m, target, evidence)
        base_prob   == base_result.value[1]
        First(var)  == {e \in Perturbed(evidence, var) :
                          \A x \in Perturbed(evidence, var) : e[var] <= x[var]}
        failed == {e \in UNION {First(var) : var \in DOMAIN evidence} :
                     QueryError(m, target, e) # "ok"}
    IN IF base_result.status # "ok" THEN base_result
       ELSE IF failed # {} THEN query(m, target, CHOOSE e \in failed : TRUE)
       ELSE Returned(
              [var \in DOMAIN evidence |->
                 LET impacts == {AbsDiff(query(m, target, e).value[1], base_prob) :
                                   e \in First(var)}
                 IN IF impacts = {} THEN RatZero ELSE RatMax(impacts)])

sensitivity_analysis(m, target, evidence) ==
    LET base_result == query(m, target, evidence)
        base_prob   == base_result.value[1]
        failed == {e \in UNION {Perturbed(evidence, var) : var \in DOMAIN evidence} :
                     QueryError(m, target, e) # "ok"}
    IN IF base_result.status # "ok" THEN base_result
       ELSE IF failed # {} THEN query(m, target, CHOOSE e \in failed : TRUE)
       ELSE Returned(
              [var \in DOMAIN evidence |->
                 LET impacts == {AbsDiff(query(m, target, e).value[1], base_prob) :
                                   e \in Perturbed(evidence, var)}
                 IN IF impacts = {} THEN RatZero ELSE RatMax(impacts)])

-----
(* Inputs.                                                                 *)

\* Most entries an evidence mapping holds when its entries are unrestricted.
MaxEvidence == 2

\* A name that is no node of the network (the class docstring mentions a
\* water-colour indicator that the network does not have).
UnknownName == "Water_Color"

EvidenceKeys == Nodes \cup {UnknownName}

\* Observed states a caller may send: the valid ones and integers on both
\* sides of every valid range.
EvidenceStates == -4 .. 3

MapsOver(D, states) == [D -> states]

\* Mappings of at most MaxEvidence entries, any key, any state.
SparseEvidence ==
    UNION {MapsOver(D, EvidenceStates) :
             D \in {K \in SUBSET EvidenceKeys : Cardinality(K) <= MaxEvidence}}

\* Every mapping from nodes to states of the node's own range.
ValidEvidence ==
    UNION {{e \in MapsOver(D, 0 .. 2) : \A v \in D : e[v] < Card(BuiltNetwork, v)} :
             D \in SUBSET Nodes}

\* Every node observed in range, and one entry under the unknown name.
StrayEvidence ==
    {[k \in EvidenceKeys |-> IF k = UnknownName THEN 0 ELSE e[k]] :
        e \in {x \in ValidEvidence : DOMAIN x = Nodes}}

Evidences == SparseEvidence \cup ValidEvidence \cup StrayEvidence

SensitivityTargets == {"Contamination", "Pump_Failure", "Turbidity", UnknownName}

IsValidEvidence(m, target, evidence) ==
    /\ DOMAIN evidence \subseteq NodesOf(m) \ {target}
    /\ \A v \in DOMAIN evidence : 0 <= evidence[v] /\ evidence[v] < Card(m, v)

-----------------------------------------------------------------------------
(* State.  model is the network of the one shared instance; pc, req, work  *)
(* and res are per caller: where the caller stands, the call it made, the  *)
(* call's local data, and what the call gave back.                         *)

NoReq == [op |-> "none"]

NoWork == [stage |-> "none"]

NoRes == [http |-> 0, status |-> "none", value |-> << >>]

\* What a caller of a method sees: the returned value or the exception.
Outcome(result) == [http |-> 0, status |-> result.status, value |-> result.value]

\* What a client of a main.py endpoint sees: the handler returns the
\* method's result (200); an exception is not caught (500).
HttpOutcome(result) ==
    [http   |-> IF result.status = "ok" THEN 200 ELSE 500,
     status |-> result.status,
     value  |-> result.value]

InitFor(callers) ==
    /\ model = BuiltNetwork
    /\ pc    = [t \in callers |-> "idle"]
    /\ req   = [t \in callers |-> NoReq]
    /\ work  = [t \in callers |-> NoWork]
    /\ res   = [t \in callers |-> NoRes]

Respond(t, request, outcome) ==
    /\ pc'  = [pc  EXCEPT ![t] = "responded"]
    /\ req' = [req EXCEPT ![t] = request]
    /\ res' = [res EXCEPT ![t] = outcome]
    /\ UNCHANGED work

\* POST /predict/contamination (main.py)
main_predict_contamination(t) ==
    /\ pc[t] = "idle"
    /\ \E evidence \in Evidences :
           Respond(t, [op |-> "predict_contamination", evidence |-> evidence],
                   HttpOutcome(predict_contamination_risk(model, evidence)))
    /\ UNCHANGED model

\* GET /predict/pump/{pump_age} (main.py)
main_predict_pump(t) ==
    /\ pc[t] = "idle"
    /\ \E pump_age \in EvidenceStates :
           Respond(t, [op |-> "predict_pump", pump_age |-> pump_age],
                   HttpOutcome(predict_pump_status(model, pump_age)))
    /\ UNCHANGED model

\* Faulty variant of the call: the engine reduces the network itself by the
\* evidence, so the observed nodes leave it.
call_get_most_likely_scenario_reducing_network(t) ==
    /\ pc[t] = "idle"
    /\ \E evidence \in Evidences :
           /\ Respond(t, [op |-> "get_most_likely_scenario", evidence |-> evidence],
                      Outcome(get_most_likely_scenario(model, evidence)))
           /\ model' = [model EXCEPT !.cpds =
                          [n \in NodesOf(model) \ DOMAIN evidence |-> model.cpds[n]]]

call_get_most_likely_scenario(t) ==
    /\ pc[t] = "idle"
    /\ \E evidence \in Evidences :
           Respond(t, [op |-> "get_most_likely_scenario", evidence |-> evidence],
                   Outcome(get_most_likely_scenario(model, evidence)))
    /\ UNCHANGED model

call_sensitivity_analysis(t) ==
    /\ pc[t] = "idle"
    /\ \E target \in SensitivityTargets, evidence \in SparseEvidence :
           Respond(t, [op |-> "sensitivity_analysis", target |-> target,
                       evidence |-> evidence],
                   Outcome(sensitivity_analysis(model, target, evidence)))
    /\ UNCHANGED model

call_get_variable_info(t) ==
    /\ pc[t] = "idle"
    /\ Respond(t, [op |-> "get_variable_info"], Outcome(Returned(get_variable_info)))
    /\ UNCHANGED model

\* The caller takes the response; it may call again.
Return(t) ==
    /\ pc[t] = "responded"
    /\ pc'   = [pc   EXCEPT ![t] = "idle"]
    /\ req'  = [req  EXCEPT ![t] = NoReq]
    /\ work' = [work EXCEPT ![t] = NoWork]
    /\ res'  = [res  EXCEPT ![t] = NoRes]
    /\ UNCHANGED model

\* One caller at a time: the calls of one client in sequence.
Sequential == {1}

Init == InitFor(Sequential)

Next ==
    \/ \E t \in Sequential : main_predict_contamination(t)
    \/ \E t \in Sequential : main_predict_pump(t)
    \/ \E t \in Sequential : call_get_most_likely_scenario(t)
    \/ \E t \in Sequential : call_sensitivity_analysis(t)
    \/ \E t \in Sequential : call_get_variable_info(t)
    \/ \E t \in Sequential : Return(t)

Spec == Init /\ [][Next]_vars

-----------------------------------------------------------------------------
(* Properties of the calls, one caller at a time (Spec).                   *)

Responded(t, op) == pc[t] = "responded" /\ req[t].op = op

InRange(m, v, s) == 0 <= s /\ s < Card(m, v)

\* C1: for every valid evidence (known variables other than the target,
\* each state in [0, cardinality)) the returned probabilities sum to 1:
\* safe_probability + contamination_probability = 1 for
\* predict_contamination_risk, working_probability + failure_probability = 1
\* for predict_pump_status.
C1_ProbabilitiesSumToOne ==
    \A t \in DOMAIN pc :
        /\ ( /\ Responded(t, "predict_contamination")
             /\ IsValidEvidence(BuiltNetwork, "Contamination", req[t].evidence) )
           => /\ res[t].status = "ok"
              /\ res[t].value.safe_probability
                   = Complement(res[t].value.contamination_probability)
              /\ res[t].value.contamination_probability[1] > 0
              /\ res[t].value.safe_probability[1] > 0
        /\ ( /\ Responded(t, "predict_pump")
             /\ InRange(BuiltNetwork, "Pump_Age", req[t].pump_age) )
           => /\ res[t].status = "ok"
              /\ res[t].value.working_probability
                   = Complement(res[t].value.failure_probability)
              /\ res[t].value.failure_probability[1] > 0
              /\ res[t].value.working_probability[1] > 0

\* A contamination query on valid evidence of three entries has answered
\* with two different probabilities.
C1_Witness ==
    /\ Responded(1, "predict_contamination")
    /\ req[1].evidence = [Rainfall |-> 2, Turbidity |-> 1, Pump_Age |-> 0]
    /\ res[1].status = "ok"
    /\ res[1].value.contamination_probability = <<53, 100>>
    /\ res[1].value.safe_probability = <<47, 100>>

\* C3: with the only parent fixed by evidence the query on the child returns
\* the CPD column of that parent state: predict_pump_status(a) returns
\* failure_probability 0.02, 0.10, 0.30 and working_probability 0.98, 0.90,
\* 0.70 for a = 0, 1, 2.
C3_PumpStatusIsCpdColumn ==
    \A t \in DOMAIN pc :
        ( Responded(t, "predict_pump") /\ req[t].pump_age \in 0 .. 2 )
        => LET a   == req[t].pump_age
               cpd == model.cpds["Pump_Failure"]
           IN /\ res[t].status = "ok"
              /\ res[t].value.working_probability = Frac(cpd.values[1][a + 1], cpd.den)
              /\ res[t].value.failure_probability = Frac(cpd.values[2][a + 1], cpd.den)
              /\ res[t].value.failure_probability
                   = (CASE a = 0 -> <<1, 50>> [] a = 1 -> <<1, 10>> [] a = 2 -> <<3, 10>>)
              /\ res[t].value.working_probability
                   = (CASE a = 0 -> <<49, 50>> [] a = 1 -> <<9, 10>> [] a = 2 -> <<7, 10>>)

\* The pump status of an old pump (a = 2) has been returned.
C3_Witness ==
    /\ Responded(1, "predict_pump")
    /\ req[1].pump_age = 2
    /\ res[1].status = "ok"
    /\ res[1].value.failure_probability = <<3, 10>>
    /\ res[1].value.maintenance_needed

\* The evidence a request hands to the engine.
EvidenceOf(r) ==
    IF r.op = "predict_pump" THEN [v \in {"Pump_Age"} |-> r.pump_age]
    ELSE IF r.op \in {"predict_contamination", "get_most_likely_scenario",
                      "sensitivity_analysis"} THEN r.evidence
    ELSE << >>

\* C5 (as claimed): evidence whose state lies outside [0, cardinality) of
\* its variable is rejected, with no result, on every path to the model,
\* the two main.py endpoints included.
C5_OutOfRangeRejected ==
    \A t \in DOMAIN pc :
        ( /\ pc[t] = "responded"
          /\ req[t].op \in {"predict_contamination", "predict_pump"}
          /\ \E v \in DOMAIN EvidenceOf(req[t]) \cap Nodes :
                 ~ InRange(BuiltNetwork, v, EvidenceOf(req[t])[v]) )
        => res[t].status # "ok"

\* C6: a query whose target is also in the evidence is refused and returns
\* nothing: predict_contamination_risk with 'Contamination' in the evidence,
\* and sensitivity_analysis(target, evidence) with target in the evidence.
C6_TargetInEvidenceRejected ==
    \A t \in DOMAIN pc :
        /\ ( /\ Responded(t, "predict_contamination")
             /\ "Contamination" \in DOMAIN req[t].evidence )
           => res[t] = [http |-> 500, status |-> "ValueError_both", value |-> << >>]
        /\ ( /\ Responded(t, "sensitivity_analysis")
             /\ req[t].target \in DOMAIN req[t].evidence )
           => res[t] = [http |-> 0, status |-> "ValueError_both", value |-> << >>]

\* A sensitivity analysis of Contamination whose evidence observes
\* Contamination itself (in range) has been refused.
C6_Witness ==
    /\ Responded(1, "sensitivity_analysis")
    /\ req[1].target = "Contamination"
    /\ req[1].evidence = [Contamination |-> 1, Rainfall |-> 0]
    /\ res[1].status = "ValueError_both"

\* C7 (as claimed): evidence holding a name outside the seven network
\* variables is rejected by predict_contamination_risk,
\* get_most_likely_scenario and sensitivity_analysis.
C7_UnknownNameRejected ==
    \A t \in DOMAIN pc :
        ( /\ pc[t] = "responded"
          /\ req[t].op \in {"predict_contamination", "get_most_likely_scenario",
                            "sensitivity_analysis"}
          /\ ~ (DOMAIN req[t].evidence \subseteq Nodes) )
        => res[t].status # "ok"


\* The queries a call makes of the engine, as <<target, evidence>>.
QueriesOf(r) ==
    CASE r.op = "predict_contamination" -> {<<"Contamination", r.evidence>>}
      [] r.op = "predict_pump" -> {<<"Pump_Failure", EvidenceOf(r)>>}
      [] r.op = "get_most_likely_scenario" ->
           {<<var, r.evidence>> : var \in Nodes \ DOMAIN r.evidence}
      [] r.op = "sensitivity_analysis" ->
           {<<r.target, e>> :
              e \in {r.evidence} \cup
                    UNION {Perturbed(r.evidence, var) :
                             var \in DOMAIN r.evidence \cap Nodes}}
      [] OTHER -> {}

IsProbability(p) == p[2] > 0 /\ 0 <= p[1] /\ p[1] <= p[2]

\* C14: degenerate normalisation is unreachable on the validated network:
\* for every valid evidence assignment the final unnormalised factor of
\* every query a call makes has a strictly positive sum, and the call
\* returns probabilities, never NaN.
C14_NormalizationNeverDegenerate ==
    \A t \in DOMAIN pc :
        pc[t] = "responded" =>
          /\ \A q \in QueriesOf(req[t]) :
                 ( q[1] \in Nodes /\ IsValidEvidence(model, q[1], q[2]) )
                 => LET final == FinalFactor(model, q[1], q[2])
                    IN SumOver(final.val, DOMAIN final.val) > 0
          /\ ( /\ req[t].op \in {"predict_contamination", "predict_pump"}
               /\ \A q \in QueriesOf(req[t]) : IsValidEvidence(model, q[1], q[2]) )
             => /\ res[t].status = "ok"
                /\ \A k \in DOMAIN res[t].value \ {"risk_level", "evidence_used",
                                                      "maintenance_needed"} :
                       IsProbability(res[t].value[k])

\* The least likely complete observation has been answered: low rain yet
\* very cloudy water and runoff, a far latrine, the pump unobserved.
C14_Witness ==
    /\ Responded(1, "predict_contamination")
    /\ req[1].evidence = [Rainfall |-> 0, Turbidity |-> 2, Surface_Runoff |-> 1,
                          Latrine_Dist |-> 0]
    /\ res[1].status = "ok"
    /\ IsProbability(res[1].value.contamination_probability)


\* C9: once the network is built no sequence of predict_contamination_risk,
\* predict_pump_status, get_most_likely_scenario, sensitivity_analysis and
\* get_variable_info calls changes a variable, an edge or a CPD value.
C9_NetworkNeverChanges ==
    /\ model.edges = Edges
    /\ DOMAIN model.cpds = Nodes
    /\ \A v \in Nodes : model.cpds[v] = BuiltNetwork.cpds[v]

\* A scenario estimate with two observed nodes has returned, the network
\* as built.
C9_Witness ==
    /\ Responded(1, "get_most_likely_scenario")
    /\ req[1].evidence = [Rainfall |-> 2, Pump_Age |-> 1]
    /\ res[1].status = "ok"
    /\ DOMAIN res[1].value = Nodes \ {"Rainfall", "Pump_Age"}
    /\ model = BuiltNetwork

-----------------------------------------------------------------------------
(* One query, step by step (SpecElim): the engine may eliminate the        *)
(* variables in any order, so each elimination is a step of its own and    *)
(* the next variable is any of those that remain.                          *)

QueryTargets == Nodes \cup {UnknownName}

\* Valid evidence of at most MaxEvidence entries, and every mapping of at
\* most one entry (unknown name, state out of range).
QueryEvidences ==
    {e \in SparseEvidence :
        \/ Cardinality(DOMAIN e) <= 1
        \/ /\ DOMAIN e \subseteq Nodes
           /\ \A v \in DOMAIN e : InRange(BuiltNetwork, v, e[v])}

\* query: the request is refused before any factor is built.
query_rejected(t) ==
    /\ pc[t] = "idle"
    /\ \E target \in QueryTargets, evidence \in QueryEvidences :
           /\ QueryError(model, target, evidence) # "ok"
           /\ req' = [req EXCEPT ![t] = [op |-> "query", target |-> target,
                                         evidence |-> evidence]]
           /\ res' = [res EXCEPT ![t] = Outcome(Raised(QueryError(model, target, evidence)))]
    /\ pc' = [pc EXCEPT ![t] = "responded"]
    /\ UNCHANGED <<model, work>>

\* query: the working factors are built from the CPDs and the evidence.
query_begin(t) ==
    /\ pc[t] = "idle"
    /\ \E target \in QueryTargets, evidence \in QueryEvidences :
           /\ QueryError(model, target, evidence) = "ok"
           /\ req'  = [req EXCEPT ![t] = [op |-> "query", target |-> target,
                                          evidence |-> evidence]]
           /\ work' = [work EXCEPT ![t] =
                         [stage     |-> "eliminating",
                          factors   |-> WorkingFactors(model, evidence),
                          remaining |-> ToEliminate(model, {target}, evidence)]]
    /\ pc' = [pc EXCEPT ![t] = "eliminating"]
    /\ UNCHANGED <<model, res>>

\* query: one variable is eliminated.
query_eliminate(t) ==
    /\ pc[t] = "eliminating"
    /\ \E v \in work[t].remaining :
           work' = [work EXCEPT ![t].factors   = Eliminate(work[t].factors, v),
                                ![t].remaining = work[t].remaining \ {v}]
    /\ UNCHANGED <<model, pc, req, res>>

\* query: nothing is left to eliminate; the remaining factors are
\* multiplied and normalised.
query_finish(t) ==
    /\ pc[t] = "eliminating"
    /\ work[t].remaining = {}
    /\ res' = [res EXCEPT ![t] =
                 Outcome(Returned(Normalize(FactorProduct(work[t].factors),
                                            req[t].target)))]
    /\ pc' = [pc EXCEPT ![t] = "responded"]
    /\ UNCHANGED <<model, req, work>>

NextElim ==
    \/ \E t \in Sequential : query_rejected(t)
    \/ \E t \in Sequential : query_begin(t)
    \/ \E t \in Sequential : query_eliminate(t)
    \/ \E t \in Sequential : query_finish(t)
    \/ \E t \in Sequential : Return(t)

SpecElim == Init /\ [][NextElim]_vars

\* The nodes a directed path leads to from the nodes of S.
RECURSIVE Descendants(_, _)
Descendants(E, S) ==
    LET next == S \cup {e[2] : e \in {x \in E : x[1] \in S}}
    IN IF next = S THEN S ELSE Descendants(E, next)

Children(E, v) == {e[2] : e \in {x \in E : x[1] = v}}

\* The nodes joined to v by a chain of edges, whatever their direction.
Component(v) ==
    Descendants(Edges \cup {<<e[2], e[1]>> : e \in Edges}, {v})

\* The reference for the engine's answers: the posterior read off the
\* joint distribution, the product of one table entry per node.  The joint
\* is the product of the weights of the components of the graph, so its
\* sums are the products of the components' sums.
Weight(m, K, a) ==
    LET RECURSIVE W(_)
        W(S) == IF S = {} THEN 1
                ELSE LET n == CHOOSE x \in S : TRUE
                     IN m.cpds[n].values[a[n] + 1][Column(m.cpds[n], a, 1) + 1]
                        * W(S \ {n})
    IN W(K)

\* Sum of the weights of the assignments of component K in which every
\* node n takes a state of allowed[n].
ComponentSum(m, K, allowed) ==
    LET As == {a \in [K -> 0 .. 2] : \A n \in K : a[n] \in allowed[n]}
    IN SumOver([a \in As |-> Weight(m, K, a)], As)

RECURSIVE WeightSum(_, _, _)
WeightSum(m, allowed, Ks) ==
    IF Ks = {} THEN BigOf(1)
    ELSE LET K == CHOOSE x \in Ks : TRUE
         IN BigMul(BigOf(ComponentSum(m, K, allowed)), WeightSum(m, allowed, Ks \ {K}))

\* Per state of the target, the weight of the assignments that agree with
\* the evidence, over the weight of all that agree with it.
PosteriorByEnumeration(m, target, evidence) ==
    LET allowed == [n \in NodesOf(m) |->
                      IF n \in DOMAIN evidence
                      THEN {AxisIndex(evidence[n], Card(m, n))}
                      ELSE 0 .. Card(m, n) - 1]
        others == WeightSum(m, allowed,
                            {Component(v) : v \in NodesOf(m)} \ {Component(target)})
        own == [s \in 0 .. Card(m, target) - 1 |->
                  ComponentSum(m, Component(target), [allowed EXCEPT ![target] = {s}])]
        total == BigMul(BigOf(SumOver(own, DOMAIN own)), others)
    IN [s \in DOMAIN own |-> <<BigMul(BigOf(own[s]), others), total>>]

\* C2: for the same target and evidence every elimination order over the
\* other variables yields the same posterior: whatever order the steps
\* took, the result is the one of the engine's own order, and both are the
\* posterior of the joint distribution.
C2_EliminationOrderIndependent ==
    \A t \in DOMAIN pc :
        ( Responded(t, "query") /\ res[t].status = "ok" )
        => /\ res[t].value = QueryValues(BuiltNetwork, req[t].target, req[t].evidence)
           /\ \A s \in DOMAIN res[t].value :
                  RatEq(AsRat(res[t].value[s]),
                        PosteriorByEnumeration(BuiltNetwork, req[t].target,
                                               req[t].evidence)[s])

\* Contamination has been queried with nothing observed, six variables
\* eliminated in some order.
C2_Witness ==
    /\ Responded(1, "query")
    /\ req[1].target = "Contamination"
    /\ req[1].evidence = << >>
    /\ work[1].remaining = {}
    /\ res[1].status = "ok"
    /\ res[1].value[1] = <<541053, 2000000>>

\* C4: a query with empty evidence on a variable with no parents (Rainfall,
\* Latrine_Dist, Pump_Age) returns exactly that variable's prior.
C4_PriorReturned ==
    \A t \in DOMAIN pc :
        ( /\ Responded(t, "query")
          /\ req[t].evidence = << >>
          /\ req[t].target \in Nodes
          /\ ~ \E e \in Edges : e[2] = req[t].target )
        => LET cpd == model.cpds[req[t].target]
           IN /\ res[t].status = "ok"
              /\ res[t].value = [s \in 0 .. cpd.variable_card - 1 |->
                                   Frac(cpd.values[s + 1][1], cpd.den)]

\* Rainfall has been queried with nothing observed and its prior
\* (0.5, 0.3, 0.2) returned.
C4_Witness ==
    /\ Responded(1, "query")
    /\ req[1].target = "Rainfall"
    /\ req[1].evidence = << >>
    /\ res[1].status = "ok"
    /\ res[1].value = (0 :> <<1, 2>> @@ 1 :> <<3, 10>> @@ 2 :> <<1, 5>>)

-----------------------------------------------------------------------------
(* Concurrent callers (SpecConc).  The handlers of main.py are plain       *)
(* functions, which the server runs on worker threads, and every one of    *)
(* them calls the one module-level model.  A call is split at its engine   *)
(* queries: each query reads the shared network when it is made, and all   *)
(* else a call touches is its own.                                         *)

NumThreads == 2

Threads == 1 .. NumThreads

\* The calls the threads choose from: each kind of call on valid input, and
\* each kind of rejected request.
ConcRequests ==
    {[op |-> "predict_contamination", evidence |-> [Rainfall |-> 2, Turbidity |-> 1]],
     [op |-> "predict_contamination", evidence |-> [Turbidity |-> 3]],
     [op |-> "predict_contamination", evidence |-> [Water_Color |-> 0]],
     [op |-> "predict_contamination", evidence |-> [Contamination |-> 1]],
     [op |-> "predict_pump", pump_age |-> 2],
     [op |-> "get_most_likely_scenario",
      evidence |-> [Rainfall |-> 2, Surface_Runoff |-> 0, Latrine_Dist |-> 0,
                    Pump_Age |-> 2, Pump_Failure |-> 0]],
     [op |-> "get_most_likely_scenario",
      evidence |-> [Rainfall |-> 0, Turbidity |-> 0, Surface_Runoff |-> 0,
                    Latrine_Dist |-> 0, Pump_Age |-> 0, Water_Color |-> 1]],
     [op |-> "sensitivity_analysis", target |-> "Contamination",
      evidence |-> [Turbidity |-> 1]],
     [op |-> "sensitivity_analysis", target |-> "Contamination",
      evidence |-> [Surface_Runoff |-> 0, Latrine_Dist |-> 1]],
     [op |-> "sensitivity_analysis", target |-> "Pump_Failure",
      evidence |-> [Pump_Failure |-> 0]]}

\* The local data of a call as it starts.  get_most_likely_scenario copies
\* the node set when it starts.  queries counts the calls of
\* self.inference_engine.query that have returned.
LocalStart(m, r) ==
    CASE r.op \in {"predict_contamination", "predict_pump"} ->
           [stage |-> "query", queries |-> 0]
      [] r.op = "get_most_likely_scenario" ->
           [stage |-> "loop", unobserved |-> NodesOf(m) \ DOMAIN r.evidence,
            results |-> << >>, queries |-> 0]
      [] r.op = "sensitivity_analysis" ->
           [stage |-> "base", queries |-> 0]

\* The call is received; nothing is computed yet.
conc_call(t) ==
    /\ pc[t] = "idle"
    /\ \E r \in ConcRequests :
           /\ req'  = [req  EXCEPT ![t] = r]
           /\ work' = [work EXCEPT ![t] = LocalStart(model, r)]
    /\ pc' = [pc EXCEPT ![t] = "running"]
    /\ UNCHANGED <<model, res>>

Finish(t, outcome) ==
    /\ pc'  = [pc  EXCEPT ![t] = "responded"]
    /\ res' = [res EXCEPT ![t] = outcome]
    /\ UNCHANGED <<req, work>>

Continue(t, w) ==
    /\ work' = [work EXCEPT ![t] = w]
    /\ UNCHANGED <<pc, req, res>>

\* predict_contamination_risk / predict_pump_status: the one query.
StepPredict(t) ==
    /\ work[t].stage = "query"
    /\ Finish(t, HttpOutcome(IF req[t].op = "predict_contamination"
                             THEN predict_contamination_risk(model, req[t].evidence)
                             ELSE predict_pump_status(model, req[t].pump_age)))

\* Faulty variant: the states estimated so far join the evidence of the
\* next query.
StepScenario_chaining(t) ==
    /\ work[t].stage = "loop"
    /\ IF work[t].unobserved = {}
       THEN Finish(t, Outcome(Returned(work[t].results)))
       ELSE \E var \in work[t].unobserved :
              LET chained == [n \in DOMAIN req[t].evidence \cup DOMAIN work[t].results |->
                                IF n \in DOMAIN req[t].evidence THEN req[t].evidence[n]
                                ELSE work[t].results[n]]
                  query_result == query(model, var, chained)
              IN IF query_result.status # "ok"
                 THEN Finish(t, Outcome(query_result))
                 ELSE Continue(t, [work[t] EXCEPT
                        !.queries = @ + 1,
                        !.unobserved = work[t].unobserved \ {var},
                        !.results = [v \in DOMAIN work[t].results \cup {var} |->
                                       IF v = var THEN ArgMax(query_result.value)
                                       ELSE work[t].results[v]]])

\* get_most_likely_scenario: the query of one more unobserved node (the set
\* is iterated in no particular order), or the return after the last.
StepScenario(t) ==
    /\ work[t].stage = "loop"
    /\ IF work[t].unobserved = {}
       THEN Finish(t, Outcome(Returned(work[t].results)))
       ELSE \E var \in work[t].unobserved :
              LET query_result == query(model, var, req[t].evidence)
              IN IF query_result.status # "ok"
                 THEN Finish(t, Outcome(query_result))
                 ELSE Continue(t, [work[t] EXCEPT
                        !.queries = @ + 1,
                        !.unobserved = work[t].unobserved \ {var},
                        !.results = [v \in DOMAIN work[t].results \cup {var} |->
                                       IF v = var THEN ArgMax(query_result.value)
                                       ELSE work[t].results[v]]])

\* sensitivity_analysis: the base query.
StepSensitivityBase(t) ==
    /\ work[t].stage = "base"
    /\ LET base_result == query(model, req[t].target, req[t].evidence)
       IN IF base_result.status # "ok"
          THEN Finish(t, Outcome(base_result))
          ELSE Continue(t,
                 [stage     |-> "perturb",
                  queries   |-> work[t].queries + 1,
                  base_prob |-> base_result.value[1],
                  todo      |-> {<<var, e>> : var \in DOMAIN req[t].evidence,
                                              e \in UNION {Perturbed(req[t].evidence, x) :
                                                             x \in DOMAIN req[t].evidence}}
                                \cap UNION {{<<var, e>> : e \in Perturbed(req[t].evidence, var)} :
                                              var \in DOMAIN req[t].evidence},
                  impacts   |-> {}])

\* Faulty variant: temp_evidence is the caller's mapping itself, not a copy,
\* so the perturbed state is written into it.
StepSensitivityPerturb_in_place(t) ==
    /\ work[t].stage = "perturb"
    /\ IF work[t].todo = {}
       THEN Finish(t, Outcome(Returned(
              [var \in DOMAIN req[t].evidence |->
                 LET impacts == {i[2] : i \in {j \in work[t].impacts : j[1] = var}}
                 IN IF impacts = {} THEN RatZero ELSE RatMax(impacts)])))
       ELSE \E job \in work[t].todo :
              LET new_result == query(model, req[t].target, job[2])
              IN IF new_result.status # "ok"
                 THEN Finish(t, Outcome(new_result))
                 ELSE /\ work' = [work EXCEPT ![t] = [work[t] EXCEPT
                                     !.queries = @ + 1,
                                     !.todo = work[t].todo \ {job},
                                     !.impacts = work[t].impacts \cup
                                                   {<<job[1], AbsDiff(new_result.value[1],
                                                                      work[t].base_prob)>>}]]
                      /\ req' = [req EXCEPT ![t].evidence = job[2]]
                      /\ UNCHANGED <<pc, res>>

\* sensitivity_analysis: one perturbed query, or the return after the last.
StepSensitivityPerturb(t) ==
    /\ work[t].stage = "perturb"
    /\ IF work[t].todo = {}
       THEN Finish(t, Outcome(Returned(
              [var \in DOMAIN req[t].evidence |->
                 LET impacts == {i[2] : i \in {j \in work[t].impacts : j[1] = var}}
                 IN IF impacts = {} THEN RatZero ELSE RatMax(impacts)])))
       ELSE \E job \in work[t].todo :
              LET new_result == query(model, req[t].target, job[2])
              IN IF new_result.status # "ok"
                 THEN Finish(t, Outcome(new_result))
                 ELSE Continue(t, [work[t] EXCEPT
                        !.queries = @ + 1,
                        !.todo = work[t].todo \ {job},
                        !.impacts = work[t].impacts \cup
                                      {<<job[1], AbsDiff(new_result.value[1],
                                                         work[t].base_prob)>>}])

\* Faulty variant of a step: the engine files its reduced factors in the
\* shared network, so the observed nodes of the call leave it.
conc_step_filing_in_network(t) ==
    /\ pc[t] = "running"
    /\ \/ StepPredict(t)
       \/ StepScenario(t)
       \/ StepSensitivityBase(t)
       \/ StepSensitivityPerturb(t)
    /\ model' = [model EXCEPT !.cpds =
                   [n \in NodesOf(model) \ DOMAIN EvidenceOf(req[t]) |-> model.cpds[n]]]

\* Faulty variant of a step: the engine has reduced the shared network by
\* the evidence before it finds the request invalid.
conc_step_reducing_before_check(t) ==
    /\ pc[t] = "running"
    /\ \/ StepPredict(t)
       \/ StepScenario(t)
       \/ StepSensitivityBase(t)
       \/ StepSensitivityPerturb(t)
    /\ model' = IF pc'[t] = "responded" /\ res'[t].status \notin {"none", "ok"}
                THEN [model EXCEPT !.cpds =
                        [n \in NodesOf(model) \ DOMAIN EvidenceOf(req[t]) |-> model.cpds[n]]]
                ELSE model

\* The next step of a running call.  Every step reads the network and
\* leaves it as it is.
conc_step(t) ==
    /\ pc[t] = "running"
    /\ \/ StepPredict(t)
       \/ StepScenario(t)
       \/ StepSensitivityBase(t)
       \/ StepSensitivityPerturb(t)
    /\ UNCHANGED model

InitConc == InitFor(Threads)

NextConc ==
    \/ \E t \in Threads : conc_call(t)
    \/ \E t \in Threads : conc_step(t)
    \/ \E t \in Threads : Return(t)

SpecConc == InitConc /\ [][NextConc]_vars

\* What the call returns when it runs alone on the network as built.
AloneOutcome(r) ==
    CASE r.op = "predict_contamination" ->
           HttpOutcome(predict_contamination_risk(BuiltNetwork, r.evidence))
      [] r.op = "predict_pump" ->
           HttpOutcome(predict_pump_status(BuiltNetwork, r.pump_age))
      [] r.op = "get_most_likely_scenario" ->
           Outcome(get_most_likely_scenario(BuiltNetwork, r.evidence))
      [] r.op = "sensitivity_analysis" ->
           Outcome(sensitivity_analysis(BuiltNetwork, r.target, r.evidence))

\* Equal outcomes; sensitivity scores are compared as rationals.
SameOutcome(r, x, y) ==
    /\ x.http = y.http
    /\ x.status = y.status
    /\ IF r.op = "sensitivity_analysis" /\ x.status = "ok"
       THEN /\ DOMAIN x.value = DOMAIN y.value
            /\ \A var \in DOMAIN x.value : RatEq(x.value[var], y.value[var])
       ELSE x.value = y.value

Rejected(o) == o.status \notin {"none", "ok"}

\* A step in which the request of thread t is rejected.
RejectionOf(t) ==
    /\ pc[t] = "running"
    /\ pc'[t] = "responded"
    /\ Rejected(res'[t])

\* C8: a rejected request (unknown name, state out of the table's range,
\* target/evidence overlap) leaves the shared network unchanged and touches
\* no other call: the step that rejects changes nothing but the rejected
\* call's own response, and every valid call, in flight or later, returns
\* what it returns when the failed request is never made.
C8_RejectionIsIsolated ==
    /\ [][\A t \in Threads :
            RejectionOf(t) =>
              /\ model' = model
              /\ \A u \in Threads \ {t} :
                     /\ pc'[u] = pc[u] /\ req'[u] = req[u]
                     /\ work'[u] = work[u] /\ res'[u] = res[u]]_vars
    /\ [](\A t \in Threads :
            (pc[t] = "responded" /\ res[t].status = "ok")
            => SameOutcome(req[t], res[t], AloneOutcome(req[t])))

\* Thread 1 has been rejected (state 3 of Turbidity) while the scenario
\* estimate of thread 2 was in flight, one of its two queries made.
C8_Witness ==
    /\ pc[1] = "responded"
    /\ req[1] = [op |-> "predict_contamination", evidence |-> [Turbidity |-> 3]]
    /\ res[1].status = "IndexError"
    /\ pc[2] = "running"
    /\ req[2].op = "get_most_likely_scenario"
    /\ work[2].stage = "loop"
    /\ Cardinality(work[2].unobserved) = 1
    /\ Cardinality(DOMAIN work[2].results) = 1

\* C10: concurrent query, sensitivity and scenario calls on the one shared
\* model cannot race: under every interleaving of their steps each call
\* returns the result it returns when run alone, and the data a running
\* call works on is its own.
C10_InterleavingsAgree ==
    \A t \in Threads :
        /\ pc[t] = "responded" => SameOutcome(req[t], res[t], AloneOutcome(req[t]))
        /\ ( pc[t] = "running" /\ work[t].stage = "loop" )
           => \A v \in DOMAIN work[t].results :
                  work[t].results[v]
                    = get_most_likely_scenario(BuiltNetwork, req[t].evidence).value[v]

\* A sensitivity analysis and a scenario estimate have both returned, each
\* begun before the other ended.
C10_Witness ==
    /\ pc[1] = "responded" /\ pc[2] = "responded"
    /\ req[1].op = "sensitivity_analysis" /\ res[1].status = "ok"
    /\ req[2].op = "get_most_likely_scenario" /\ res[2].status = "ok"
    /\ DOMAIN res[1].value = {"Turbidity"}
    /\ DOMAIN res[2].value = {"Turbidity", "Contamination"}


-----------------------------------------------------------------------------
(* Construction (SpecBuild).  The import of main.py runs                   *)
(* BoreholeWaterQualityModel(), which runs _build_network: the graph, the  *)
(* seven tables, add_cpds, the asserted check_model and the engine.  An    *)
(* exception at any step ends the import, and the handlers are never       *)
(* registered.  The definition built is the one of the source or the same  *)
(* with one slip in it, and the interpreter runs with or without -O, which *)
(* strips the assert statement together with the call inside it.           *)

GraphNodes(edges) == {e[1] : e \in edges} \cup {e[2] : e \in edges}

Parents(edges, v) == {e[1] : e \in {x \in edges : x[2] = v}}

\* DiscreteBayesianNetwork(edges) refuses a cycle: the graph is a DAG iff
\* removing the nodes without an incoming edge, again and again, empties it.
RECURSIVE Acyclic(_, _)
Acyclic(N, E) ==
    IF N = {} THEN TRUE
    ELSE LET roots == {n \in N : \A e \in E : e[2] # n}
         IN IF roots = {} THEN FALSE
            ELSE Acyclic(N \ roots, {e \in E : e[1] \notin roots})

RECURSIVE SeqProduct(_)
SeqProduct(s) == IF s = << >> THEN 1 ELSE Head(s) * SeqProduct(Tail(s))

\* TabularCPD(...) refuses values that are not variable_card rows of
\* product(evidence_card) entries.
ShapeOk(cpd) ==
    /\ Len(cpd.evidence) = Len(cpd.evidence_card)
    /\ Len(cpd.values) = cpd.variable_card
    /\ \A r \in DOMAIN cpd.values :
           Len(cpd.values[r]) = SeqProduct(cpd.evidence_card)

ColumnSum(cpd, c) == SumOver([r \in DOMAIN cpd.values |-> cpd.values[r][c]],
                             DOMAIN cpd.values)

\* is_valid_cpd(): the column sums are compared with 1 by np.allclose with
\* atol = 0.01.
ColumnSumsToOne(cpd, c) ==
    LET off == ColumnSum(cpd, c) - cpd.den
    IN (IF off < 0 THEN -off ELSE off) * 100 <= cpd.den

\* Faulty variant of the check: the column sums only.
check_model_columns_only(m) ==
    \A node \in GraphNodes(m.edges) :
        /\ node \in DOMAIN m.cpds
        /\ \A c \in 1 .. SeqProduct(m.cpds[node].evidence_card) :
               ColumnSumsToOne(m.cpds[node], c)

\* model.check_model(): every node has a CPD, the CPD's evidence is the
\* node's parents, the evidence cardinalities are those of the parents'
\* own tables, and every column sums to 1 within the tolerance.
check_model(m) ==
    \A node \in GraphNodes(m.edges) :
        /\ node \in DOMAIN m.cpds
        /\ LET cpd == m.cpds[node]
           IN /\ SeqRange(cpd.evidence) = Parents(m.edges, node)
              /\ \A i \in DOMAIN cpd.evidence :
                     cpd.evidence[i] \in DOMAIN m.cpds
                       => cpd.evidence_card[i] = m.cpds[cpd.evidence[i]].variable_card
              /\ \A c \in 1 .. SeqProduct(cpd.evidence_card) :
                     ColumnSumsToOne(cpd, c)

\* The definition of the source.
WellFormed == [edges |-> Edges, cpds |-> BuiltNetwork.cpds]

\* One slip in the definition: an edge closing a cycle, a table left out of
\* add_cpds, a column that sums to 1.5, a row one entry short, a parent left
\* out of a table.
WithCycle(e) == [WellFormed EXCEPT !.edges = Edges \cup {<<e[2], e[1]>>}]

WithoutCpd(v) ==
    [WellFormed EXCEPT !.cpds = [n \in Nodes \ {v} |-> BuiltNetwork.cpds[n]]]

NotNormalized(v) ==
    [WellFormed EXCEPT !.cpds[v].values[1][1] =
        BuiltNetwork.cpds[v].values[1][1] + BuiltNetwork.cpds[v].den \div 2]

Misshapen(v) ==
    [WellFormed EXCEPT !.cpds[v].values[1] =
        SubSeq(BuiltNetwork.cpds[v].values[1], 1,
               Len(BuiltNetwork.cpds[v].values[1]) - 1)]

WithoutLastParent(v) ==
    LET cpd == BuiltNetwork.cpds[v]
        k == Len(cpd.evidence)
        stride == cpd.evidence_card[k]
    IN [WellFormed EXCEPT !.cpds[v] =
          [cpd EXCEPT
             !.evidence = SubSeq(cpd.evidence, 1, k - 1),
             !.evidence_card = SubSeq(cpd.evidence_card, 1, k - 1),
             !.values = [r \in DOMAIN cpd.values |->
                           [c \in 1 .. (Len(cpd.values[r]) \div stride) |->
                              cpd.values[r][(c - 1) * stride + 1]]]]]

Definitions ==
    {WellFormed}
    \cup {WithCycle(e) : e \in Edges \cup {<<"Rainfall", "Contamination">>}}
    \cup {WithoutCpd(v) : v \in Nodes}
    \cup {NotNormalized(v) : v \in Nodes}
    \cup {Misshapen(v) : v \in Nodes}
    \cup {WithoutLastParent(v) :
            v \in {n \in Nodes : BuiltNetwork.cpds[n].evidence # << >>}}

\* The import of main.py, and the client whose requests it serves.
Builder == 0

Client == 1

\* self.model = None
NoModel == [edges |-> {}, cpds |-> << >>]

InitBuild ==
    /\ model = NoModel
    /\ pc    = [t \in {Builder, Client} |-> IF t = Builder THEN "new" ELSE "unloaded"]
    /\ req   = [t \in {Builder, Client} |-> NoReq]
    /\ res   = [t \in {Builder, Client} |-> NoRes]
    /\ \E d \in Definitions, o \in BOOLEAN :
           work = [t \in {Builder, Client} |->
                     IF t = Builder
                     THEN [definition |-> d, optimized |-> o, inference_engine |-> FALSE]
                     ELSE NoWork]

BuildStep(to) ==
    /\ pc' = [pc EXCEPT ![Builder] = to]
    /\ UNCHANGED <<req, res>>

\* self.model = DiscreteBayesianNetwork([...])
build_structure ==
    /\ pc[Builder] = "new"
    /\ LET edges == work[Builder].definition.edges
       IN IF Acyclic(GraphNodes(edges), edges)
          THEN /\ model' = [model EXCEPT !.edges = edges]
               /\ BuildStep("structure")
          ELSE /\ BuildStep("aborted")
               /\ UNCHANGED model
    /\ UNCHANGED work

\* cpd_rainfall = TabularCPD(...) ... cpd_contamination = TabularCPD(...)
build_tabular_cpds ==
    /\ pc[Builder] = "structure"
    /\ LET cpds == work[Builder].definition.cpds
       IN IF \A v \in DOMAIN cpds : ShapeOk(cpds[v])
          THEN BuildStep("tables")
          ELSE BuildStep("aborted")
    /\ UNCHANGED <<model, work>>

\* self.model.add_cpds(...)
build_add_cpds ==
    /\ pc[Builder] = "tables"
    /\ model' = [model EXCEPT !.cpds = work[Builder].definition.cpds]
    /\ BuildStep("added")
    /\ UNCHANGED work

\* assert self.model.check_model(): under -O the statement is not there.
build_check_model ==
    /\ pc[Builder] = "added"
    /\ IF work[Builder].optimized \/ check_model(model)
       THEN BuildStep("checked")
       ELSE BuildStep("aborted")
    /\ UNCHANGED <<model, work>>

\* Faulty variant: an engine that takes the network as it is given.
build_engine_unchecked ==
    /\ pc[Builder] = "checked"
    /\ work' = [work EXCEPT ![Builder].inference_engine = TRUE]
    /\ pc' = [pc EXCEPT ![Builder] = "built", ![Client] = "idle"]
    /\ UNCHANGED <<model, req, res>>

\* self.inference_engine = VariableElimination(self.model): the engine's
\* constructor runs check_model on the network again.  __init__ returns,
\* the import goes on and the handlers are registered.
build_engine ==
    /\ pc[Builder] = "checked"
    /\ IF check_model(model)
       THEN /\ work' = [work EXCEPT ![Builder].inference_engine = TRUE]
            /\ pc' = [pc EXCEPT ![Builder] = "built", ![Client] = "idle"]
            /\ UNCHANGED <<req, res>>
       ELSE /\ BuildStep("aborted")
            /\ UNCHANGED work
    /\ UNCHANGED model

NextBuild ==
    \/ build_structure
    \/ build_tabular_cpds
    \/ build_add_cpds
    \/ build_check_model
    \/ build_engine
    \/ main_predict_pump(Client)
    \/ call_get_variable_info(Client)
    \/ Return(Client)

SpecBuild == InitBuild /\ [][NextBuild]_vars

\* The network is complete and valid: a DAG with, for every node, a table
\* of the right shape over the node's parents whose columns sum to 1.
CompleteAndValid(m) ==
    /\ GraphNodes(m.edges) = Nodes
    /\ DOMAIN m.cpds = Nodes
    /\ Acyclic(Nodes, m.edges)
    /\ \A v \in Nodes :
           /\ ShapeOk(m.cpds[v])
           /\ SeqRange(m.cpds[v].evidence) = Parents(m.edges, v)
           /\ \A c \in 1 .. SeqProduct(m.cpds[v].evidence_card) :
                  ColumnSum(m.cpds[v], c) = m.cpds[v].den

\* C11: validation precedes every query.  The engine exists only once the
\* complete network (all edges, all seven CPDs) has passed validation, a
\* request is served only once the engine exists, and a definition that
\* fails validation (a cycle, a missing or mis-shaped CPD, a column that
\* does not sum to 1) aborts construction: no engine, no query path.
C11_ValidationPrecedesQueries ==
    /\ work[Builder].inference_engine
         => /\ CompleteAndValid(model)
            /\ model = work[Builder].definition
    /\ pc[Client] # "unloaded" => work[Builder].inference_engine
    /\ work[Builder].definition # WellFormed
         => /\ ~ work[Builder].inference_engine
            /\ pc[Client] = "unloaded"
            /\ req[Client] = NoReq

\* With assertions on, a Contamination table whose first column sums to
\* 1.5 has been added to the network and construction has stopped at the
\* check, with no engine and no handler.
C11_Witness ==
    /\ pc[Builder] = "aborted"
    /\ ~ work[Builder].optimized
    /\ work[Builder].definition = NotNormalized("Contamination")
    /\ DOMAIN model.cpds = Nodes
    /\ ~ work[Builder].inference_engine
    /\ pc[Client] = "unloaded"


ParentCard(m, v) ==
    [u \in SeqRange(m.cpds[v].evidence) |-> m.cpds[u].variable_card]

\* C12: in the validated network every CPD column sums to 1: for each of
\* the seven variables and each assignment of its parents, the
\* probabilities of the variable's states add up to exactly 1.
C12_ColumnsSumToOne ==
    work[Builder].inference_engine
      => \A v \in Nodes :
            \A a \in Assignments(ParentCard(model, v)) :
                LET cpd == model.cpds[v]
                    column == [st \in 0 .. cpd.variable_card - 1 |->
                                 cpd.values[st + 1][Column(cpd, a, 1) + 1]]
                IN /\ \A st \in DOMAIN column : column[st] >= 0
                   /\ Frac(SumOver(column, DOMAIN column), cpd.den) = One

\* The network of the source has passed the asserted check and the
\* engine's own, all seven tables in it.
C12_Witness ==
    /\ pc[Builder] = "built"
    /\ ~ work[Builder].optimized
    /\ work[Builder].inference_engine
    /\ DOMAIN model.cpds = Nodes
    /\ Cardinality(Assignments(ParentCard(model, "Contamination"))) = 12


\* C13: the built network satisfies the structural invariants: every
\* variable has exactly one CPD, the parent list each CPD declares equals
\* as a set the variable's parents in the edge list, each table has
\* cardinality(child) x product of the parents' cardinalities entries, and
\* no directed path leads from a node back to itself.
C13_StructuralInvariants ==
    work[Builder].inference_engine
      => /\ DOMAIN model.cpds = GraphNodes(model.edges)
         /\ \A v \in DOMAIN model.cpds :
                LET cpd == model.cpds[v]
                    parents == {e[1] : e \in {x \in model.edges : x[2] = v}}
                IN /\ cpd.variable = v
                   /\ {cpd.evidence[i] : i \in DOMAIN cpd.evidence} = parents
                   /\ Len(cpd.evidence) = Cardinality(parents)
                   /\ SumOver([r \in DOMAIN cpd.values |-> Len(cpd.values[r])],
                              DOMAIN cpd.values)
                        = cpd.variable_card
                          * SeqProduct([i \in DOMAIN cpd.evidence |->
                                          model.cpds[cpd.evidence[i]].variable_card])
         /\ \A v \in GraphNodes(model.edges) :
                v \notin Descendants(model.edges, Children(model.edges, v))

\* Under -O, with the assert gone, the engine's own check has passed the
\* network of the source: seven nodes, six edges, seven tables.
C13_Witness ==
    /\ pc[Builder] = "built"
    /\ work[Builder].optimized
    /\ work[Builder].inference_engine
    /\ Cardinality(GraphNodes(model.edges)) = 7
    /\ Cardinality(model.edges) = 6
    /\ Cardinality(DOMAIN model.cpds) = 7


-----------------------------------------------------------------------------
(* The derived analyses, checked in Spec against the joint distribution.   *)

\* |x - y| of two fractions of big numbers.
RatAbsDiff(x, y) ==
    LET a == BigMul(x[1], y[2])
        b == BigMul(y[1], x[2])
    IN <<IF BigLess(a, b) THEN BigSub(b, a) ELSE BigSub(a, b), BigMul(x[2], y[2])>>

\* P(target = 1 | evidence) from the joint distribution.
PositiveGiven(target, evidence) ==
    PosteriorByEnumeration(BuiltNetwork, target, evidence)[1]

\* C15: sensitivity_analysis(target, evidence) gives each evidence variable
\* v the largest |P(target positive | evidence with v set to s) -
\* P(target positive | evidence)| over the states s # evidence[v] of v in
\* the network, every other evidence variable keeping its state.
C15_SensitivityScoreIsMaxImpact ==
    \A t \in DOMAIN pc :
        ( /\ Responded(t, "sensitivity_analysis")
          /\ req[t].target \in Nodes
          /\ IsValidEvidence(BuiltNetwork, req[t].target, req[t].evidence) )
        => LET base == PositiveGiven(req[t].target, req[t].evidence)
               Impacts(v) ==
                 {RatAbsDiff(PositiveGiven(req[t].target,
                                           [req[t].evidence EXCEPT ![v] = st]),
                             base) :
                    st \in (0 .. Card(BuiltNetwork, v) - 1) \ {req[t].evidence[v]}}
           IN /\ res[t].status = "ok"
              /\ \A v \in DOMAIN req[t].evidence :
                     LET impacts == Impacts(v)
                     IN /\ \E i \in impacts : RatEq(res[t].value[v], i)
                        /\ \A i \in impacts : ~ RatLess(res[t].value[v], i)

\* Contamination has been analysed under medium rain and clear water: the
\* rain, whose effect the observed turbidity leaves to the runoff alone,
\* scores less than the turbidity.
C15_Witness ==
    /\ Responded(1, "sensitivity_analysis")
    /\ req[1].target = "Contamination"
    /\ req[1].evidence = [Rainfall |-> 1, Turbidity |-> 0]
    /\ res[1].status = "ok"
    /\ RatLess(res[1].value["Rainfall"], res[1].value["Turbidity"])
    /\ RatLess(RatZero, res[1].value["Rainfall"])


\* C16 (as claimed): the score is >= 0 for every variable, and 0 for a
\* variable with no directed path to the target, for every target and
\* evidence that sensitivity_analysis accepts; stated here for the evidence
\* whose states are all in range.
C16_ZeroWithoutDirectedPath ==
    \A t \in DOMAIN pc :
        ( /\ Responded(t, "sensitivity_analysis") /\ res[t].status = "ok"
          /\ IsValidEvidence(BuiltNetwork, req[t].target, req[t].evidence) )
        => \A v \in DOMAIN res[t].value :
               /\ ~ RatLess(res[t].value[v], RatZero)
               /\ req[t].target \notin Descendants(Edges, {v})
                    => RatEq(res[t].value[v], RatZero)

\* C16 (amended): the score is >= 0 for every variable, and 0 for a
\* variable that no chain of edges, in either direction, joins to the
\* target.
C16_ZeroWhenDisconnected ==
    \A t \in DOMAIN pc :
        ( Responded(t, "sensitivity_analysis") /\ res[t].status = "ok" )
        => \A v \in DOMAIN res[t].value :
               /\ ~ RatLess(res[t].value[v], RatZero)
               /\ req[t].target \notin Component(v)
                    => RatEq(res[t].value[v], RatZero)

\* Contamination has been analysed with an old pump and very cloudy water
\* observed: the pump scores 0, the turbidity more.
C16_Witness ==
    /\ Responded(1, "sensitivity_analysis")
    /\ req[1].target = "Contamination"
    /\ req[1].evidence = [Pump_Age |-> 2, Turbidity |-> 2]
    /\ res[1].status = "ok"
    /\ RatEq(res[1].value["Pump_Age"], RatZero)
    /\ RatLess(RatZero, res[1].value["Turbidity"])


\* C17: the key set of the sensitivity result equals the key set of the
\* evidence: every evidence variable receives a score and no variable
\* absent from the evidence does.
C17_ScoresKeyedByEvidence ==
    \A t \in DOMAIN pc :
        ( Responded(t, "sensitivity_analysis") /\ res[t].status = "ok" )
        => /\ \A v \in DOMAIN req[t].evidence : v \in DOMAIN res[t].value
           /\ \A v \in Nodes \cup DOMAIN res[t].value :
                  v \notin DOMAIN req[t].evidence => v \notin DOMAIN res[t].value

\* Contamination has been analysed with a failed pump and a far latrine
\* observed: both are scored, the pump too, and nothing else.
C17_Witness ==
    /\ Responded(1, "sensitivity_analysis")
    /\ req[1].target = "Contamination"
    /\ req[1].evidence = [Pump_Failure |-> 1, Latrine_Dist |-> 0]
    /\ res[1].status = "ok"
    /\ DOMAIN res[1].value = {"Pump_Failure", "Latrine_Dist"}


C19_ScenarioIsDeterministic ==
    \A t, u \in Threads :
        ( /\ req[t].op = "get_most_likely_scenario"
          /\ req[u].op = "get_most_likely_scenario"
          /\ req[t].evidence = req[u].evidence
          /\ pc[t] = "responded" )
        => /\ pc[u] = "responded" => res[u] = res[t]
           /\ pc[u] = "running"
                => \A v \in DOMAIN work[u].results :
                       /\ res[t].status = "ok"
                       /\ work[u].results[v] = res[t].value[v]

\* Two estimates under the same evidence are under way, one having begun
\* with the turbidity and the other with the contamination.
C19_Witness ==
    /\ pc[1] = "running" /\ pc[2] = "running"
    /\ req[1].op = "get_most_likely_scenario"
    /\ req[2] = req[1]
    /\ DOMAIN work[1].results = {"Turbidity"}
    /\ DOMAIN work[2].results = {"Contamination"}


-----------------------------------------------------------------------------
(* The endpoints of backend/app.py (SpecApp).  A request body is an        *)
(* ObservationInput: five optional integer fields, each bounded by ge/le;  *)
(* a body outside the bounds is answered 422 before the handler runs.      *)

ObservationFields ==
    {"rainfall", "turbidity", "surface_runoff", "latrine_distance", "pump_age"}

\* Faulty variant: every field is let through up to 2.
FieldLe_all_two ==
    [rainfall |-> 2, turbidity |-> 2, surface_runoff |-> 2,
     latrine_distance |-> 2, pump_age |-> 2]

\* Field(None, ge=0, le=...)
FieldLe ==
    [rainfall |-> 2, turbidity |-> 2, surface_runoff |-> 1,
     latrine_distance |-> 1, pump_age |-> 2]

\* The fields the handlers copy into the evidence, in the order they test
\* them, and the node each is filed under.
EvidenceFields == <<"rainfall", "turbidity", "surface_runoff", "latrine_distance">>

FieldNode ==
    [rainfall |-> "Rainfall", turbidity |-> "Turbidity",
     surface_runoff |-> "Surface_Runoff", latrine_distance |-> "Latrine_Dist"]

\* The integers a client may send in a field: the valid ones and one or two
\* on either side.
ObservedValues == -1 .. 3

\* A body: the fields that are not None, with their values.
Observations ==
    UNION {[F -> ObservedValues] : F \in SUBSET ObservationFields}

PassesFieldBounds(observation) ==
    \A f \in DOMAIN observation : 0 <= observation[f] /\ observation[f] <= FieldLe[f]

\* evidence = {}; if observation.rainfall is not None: evidence['Rainfall'] = ...
EvidenceFrom(observation) ==
    [n \in {FieldNode[f] : f \in DOMAIN observation \cap DOMAIN FieldNode} |->
       observation[CHOOSE f \in DOMAIN FieldNode : FieldNode[f] = n]]

generate_recommendation(risk_level) ==
    CASE risk_level = "LOW"      -> "Water appears safe. Continue routine monitoring."
      [] risk_level = "MODERATE" -> "CAUTION: Consider boiling water or using water purification tablets. Monitor closely."
      [] risk_level = "HIGH"     -> "WARNING: Do NOT drink without treatment. Boil water for at least 3 minutes or use chlorine treatment."
      [] risk_level = "CRITICAL" -> "DANGER: Water likely contaminated. DO NOT USE for drinking or cooking. Contact health authorities immediately."
      [] OTHER                   -> "Monitor water quality closely"

calculate_confidence(num_observations) ==
    IF num_observations >= 4 THEN "HIGH"
    ELSE IF num_observations >= 2 THEN "MEDIUM"
    ELSE "LOW"

\* The response to a body that fails the field bounds.
Unprocessable == [http |-> 422, status |-> "RequestValidationError", value |-> << >>]

\* except Exception as e: raise HTTPException(status_code=500, ...).  The
\* HTTPException raised for an empty evidence is an Exception too, and is
\* raised inside the same try.
InternalError(prefix, e) ==
    [http |-> 500, status |-> e.status,
     value |-> [detail_prefix |-> prefix, raised |-> e.value]]

NoObservation(detail) ==
    [status |-> "HTTPException", value |-> [status_code |-> 400, detail |-> detail]]

\* The handler is done: its response, and the evidence mappings it handed
\* to the model on the way.
AppRespond(t, request, outcome, handed) ==
    /\ pc'   = [pc   EXCEPT ![t] = "responded"]
    /\ req'  = [req  EXCEPT ![t] = request]
    /\ res'  = [res  EXCEPT ![t] = outcome]
    /\ work' = [work EXCEPT ![t] = [stage |-> "handled", handed |-> handed]]

\* POST /predict, as a function of the body: the response, and the evidence
\* mappings handed to the model on the way.
predict_endpoint(m, observation) ==
    LET evidence == EvidenceFrom(observation)
        result   == predict_contamination_risk(m, evidence)
    IN IF ~ PassesFieldBounds(observation)
       THEN [outcome |-> Unprocessable, handed |-> {}]
       ELSE IF evidence = << >>
       THEN [outcome |-> InternalError("Prediction error: ",
                           NoObservation("At least one observation (rainfall, turbidity, surface_runoff, or latrine_distance) must be provided")),
             handed  |-> {}]
       ELSE IF result.status # "ok"
       THEN [outcome |-> InternalError("Prediction error: ", result),
             handed  |-> {evidence}]
       ELSE [outcome |->
               [http |-> 200, status |-> "ok",
                value |-> [safe_probability |-> result.value.safe_probability,
                           contamination_probability |->
                               result.value.contamination_probability,
                           risk_level |-> result.value.risk_level,
                           recommendation |->
                               generate_recommendation(result.value.risk_level),
                           evidence_used |-> evidence,
                           confidence |->
                               calculate_confidence(Cardinality(DOMAIN evidence))]],
             handed  |-> {evidence}]

\* POST /predict
app_predict_contamination(t) ==
    /\ pc[t] = "idle"
    /\ \E observation \in Observations :
         LET response == predict_endpoint(model, observation)
         IN AppRespond(t, [op |-> "app_predict", observation |-> observation],
                       response.outcome, response.handed)
    /\ UNCHANGED model

\* sorted(sensitivity.items(), key=lambda x: x[1], reverse=True)[0][0]: the
\* sort is stable, so of equal scores the variable filed first stays first.
MostImpactful(scores) ==
    LET filed == [i \in DOMAIN EvidenceFields |-> FieldNode[EvidenceFields[i]]]
        first == CHOOSE i \in DOMAIN filed :
                   /\ filed[i] \in DOMAIN scores
                   /\ \A j \in DOMAIN filed :
                          filed[j] \in DOMAIN scores
                          => /\ ~ RatLess(scores[filed[i]], scores[filed[j]])
                             /\ j < i => RatLess(scores[filed[j]], scores[filed[i]])
    IN filed[first]

\* POST /sensitivity-analysis
app_analyze_sensitivity(t) ==
    /\ pc[t] = "idle"
    /\ \E observation \in Observations :
         LET request  == [op |-> "app_sensitivity", observation |-> observation]
             evidence == EvidenceFrom(observation)
             result   == sensitivity_analysis(model, "Contamination", evidence)
         IN IF ~ PassesFieldBounds(observation)
            THEN AppRespond(t, request, Unprocessable, {})
            ELSE IF evidence = << >>
            THEN AppRespond(t, request,
                   InternalError("Sensitivity analysis error: ",
                                 NoObservation("At least one observation required")),
                   {})
            ELSE IF result.status # "ok"
            THEN AppRespond(t, request,
                            InternalError("Sensitivity analysis error: ", result),
                            {evidence})
            ELSE AppRespond(t, request,
                   [http |-> 200, status |-> "ok",
                    value |-> [sensitivity_scores |-> result.value,
                               most_impactful |-> MostImpactful(result.value)]],
                   {evidence} \cup UNION {Perturbed(evidence, var) :
                                            var \in DOMAIN evidence})
    /\ UNCHANGED model

NextApp ==
    \/ \E t \in Sequential : app_predict_contamination(t)
    \/ \E t \in Sequential : app_analyze_sensitivity(t)
    \/ \E t \in Sequential : Return(t)

SpecApp == Init /\ [][NextApp]_vars

\* C20 (as claimed): a POST /predict or POST /sensitivity-analysis request
\* that supplies none of rainfall, turbidity, surface_runoff and
\* latrine_distance is answered with HTTP status 400 and the 'at least one
\* observation' detail, and the model is not queried.
C20_EmptyObservationIs400 ==
    \A t \in DOMAIN pc :
        ( /\ pc[t] = "responded"
          /\ req[t].op \in {"app_predict", "app_sensitivity"}
          /\ PassesFieldBounds(req[t].observation)
          /\ DOMAIN req[t].observation \cap DOMAIN FieldNode = {} )
        => /\ res[t].http = 400
           /\ work[t].handed = {}


-----------------------------------------------------------------------------
(* The risk bands.                                                         *)

\* The probabilities k / RiskGridSteps, 0 and 1 included, on which the band
\* function is compared with itself.
RiskGridSteps == 20

RiskGrid == {Frac(k, RiskGridSteps) : k \in 0 .. RiskGridSteps}

RiskRank(level) ==
    CASE level = "LOW" -> 0 [] level = "MODERATE" -> 1
      [] level = "HIGH" -> 2 [] level = "CRITICAL" -> 3

\* p <= q for fractions with positive denominators (the products exceed
\* the machine integers).
FracLeq(p, q) ==
    ~ BigLess(BigMul(BigOf(q[1]), BigOf(p[2])), BigMul(BigOf(p[1]), BigOf(q[2])))

\* C21: the risk level is a total, monotone function of the contamination
\* probability with the documented bands: LOW for p < 0.2, MODERATE for
\* 0.2 <= p < 0.5, HIGH for 0.5 <= p < 0.8, CRITICAL for p >= 0.8; and the
\* risk_level of every response is the band of its own
\* contamination_probability.
C21_RiskLevelIsBandOfProbability ==
    \A t \in DOMAIN pc :
        ( Responded(t, "predict_contamination") /\ res[t].status = "ok" )
        => LET p     == res[t].value.contamination_probability
               level == res[t].value.risk_level
           IN /\ level \in {"LOW", "MODERATE", "HIGH", "CRITICAL"}
              /\ level = "LOW"      <=> p[1] * 5 < p[2]
              /\ level = "MODERATE" <=> ( p[2] <= p[1] * 5 /\ p[1] * 2 < p[2] )
              /\ level = "HIGH"     <=> ( p[2] <= p[1] * 2 /\ p[1] * 5 < p[2] * 4 )
              /\ level = "CRITICAL" <=> p[2] * 4 <= p[1] * 5
              /\ \A q \in RiskGrid :
                     /\ categorize_risk(q) \in {"LOW", "MODERATE", "HIGH", "CRITICAL"}
                     /\ FracLeq(q, p) => RiskRank(categorize_risk(q)) <= RiskRank(level)
                     /\ FracLeq(p, q) => RiskRank(level) <= RiskRank(categorize_risk(q))

\* Slightly cloudy water, no runoff and a far latrine give exactly 0.2,
\* the lower bound of MODERATE.
C21_Witness ==
    /\ Responded(1, "predict_contamination")
    /\ req[1].evidence = [Turbidity |-> 1, Surface_Runoff |-> 0, Latrine_Dist |-> 0]
    /\ res[1].status = "ok"
    /\ res[1].value.contamination_probability = <<1, 5>>
    /\ res[1].value.risk_level = "MODERATE"


-----------------------------------------------------------------------------
(* Termination and the number of queries of a call.                        *)

ValidCall(r) ==
    /\ r.op \in {"get_most_likely_scenario", "sensitivity_analysis"}
    /\ DOMAIN r.evidence \subseteq Nodes
    /\ \A v \in DOMAIN r.evidence : InRange(BuiltNetwork, v, r.evidence[v])
    /\ r.op = "sensitivity_analysis" => r.target \in Nodes \ DOMAIN r.evidence

OtherStates(r) == [v \in DOMAIN r.evidence |-> Card(BuiltNetwork, v) - 1]

\* The number of queries the claim gives for a call.
TotalQueries(r) ==
    IF r.op = "sensitivity_analysis"
    THEN 1 + SumOver(OtherStates(r), DOMAIN r.evidence)
    ELSE Cardinality(Nodes \ DOMAIN r.evidence)

-----------------------------------------------------------------------------
(* The dashboard (SpecDash): one browser session of streamlit_app/app.py.  *)
(* Every interaction reruns the script from the top: the sliders are read, *)
(* the category labels are shown, and the block of the button that was     *)
(* pressed, if any, runs.  The session is work[t]; req[t] and res[t] are   *)
(* the request of this run and the backend's answer, shown only in the run *)
(* that made them.  The text inputs (school, location, reporter) and the   *)
(* clock are left out of the history entries.                              *)

percentage_to_category(percentage, categories) ==
    IF categories = 3
    THEN IF percentage <= 33 THEN 0
         ELSE IF percentage <= 66 THEN 1
         ELSE 2
    ELSE IF percentage <= 50 THEN 0
         ELSE 1

get_category_label(percentage, labels) ==
    labels[percentage_to_category(percentage, Len(labels)) + 1]

rainfall_labels  == <<"Low/None (0-33%)", "Medium (34-66%)", "Heavy (67-100%)">>
runoff_labels    == <<"No runoff (0-50%)", "Runoff present (51-100%)">>
latrine_labels   == <<"Too close (<30m)", "Safe (>30m)">>
turbidity_labels == <<"Clear (0-33%)", "Slightly Cloudy (34-66%)", "Very Cloudy (67-100%)">>
pump_labels      == <<"New (<2 years)", "Medium (2-5 years)", "Old (>5 years)">>

\* st.slider(..., min_value=0, max_value=100, value=...): the values the
\* sliders start on.
SliderDefaults ==
    [rainfall_pct |-> 50, turbidity_pct |-> 0, runoff_pct |-> 0,
     latrine_pct |-> 100, pump_age_pct |-> 0]

\* The slider positions a session moves between: the defaults, the latrine
\* slider on either side of its threshold and at its lower end, and a wet
\* day with cloudy water and an old pump.
SliderSettings ==
    {SliderDefaults,
     [SliderDefaults EXCEPT !.latrine_pct = 51],
     [SliderDefaults EXCEPT !.latrine_pct = 50],
     [SliderDefaults EXCEPT !.latrine_pct = 0, !.pump_age_pct = 50],
     [rainfall_pct |-> 100, turbidity_pct |-> 67, runoff_pct |-> 51,
      latrine_pct |-> 0, pump_age_pct |-> 100]}

\* The history is capped at MaxHistory entries.
MaxHistory == 2

\* What one run of the script computes from the sliders before any button
\* block: the labels shown under the sliders.
Page(sliders, history, pressed) ==
    [stage             |-> "session",
     sliders           |-> sliders,
     current_rainfall  |-> get_category_label(sliders.rainfall_pct, rainfall_labels),
     current_runoff    |-> get_category_label(sliders.runoff_pct, runoff_labels),
     current_latrine   |-> get_category_label(sliders.latrine_pct, latrine_labels),
     current_turbidity |-> get_category_label(sliders.turbidity_pct, turbidity_labels),
     current_pump      |-> get_category_label(sliders.pump_age_pct, pump_labels),
     pressed           |-> pressed,
     history           |-> history]

\* requests.exceptions.ConnectionError, or any other exception of the call.
Unreachable == [http |-> 0, status |-> "ConnectionError", value |-> << >>]

\* POST /predict-pump, as a function of the pump_age parameter.
predict_pump_endpoint(m, pump_age) ==
    LET result == predict_pump_status(m, pump_age)
        age_categories == <<"New (<2 years)", "Medium (2-5 years)", "Old (>5 years)">>
    IN IF ~ (0 <= pump_age /\ pump_age <= 2) THEN Unprocessable
       ELSE IF result.status # "ok"
       THEN InternalError("Pump prediction error: ", result)
       ELSE [http |-> 200, status |-> "ok",
             value |-> [working_probability |-> result.value.working_probability,
                        failure_probability |-> result.value.failure_probability,
                        maintenance_needed  |-> result.value.maintenance_needed,
                        recommendation |->
                            IF FracLess(<<1, 5>>, result.value.failure_probability[1],
                                        result.value.failure_probability[2])
                            THEN "URGENT: Schedule immediate inspection and maintenance"
                            ELSE IF FracLess(<<1, 10>>, result.value.failure_probability[1],
                                             result.value.failure_probability[2])
                            THEN "IMPORTANT: Plan maintenance within next 2 weeks"
                            ELSE "GOOD: Continue routine monitoring",
                        pump_age_category |-> age_categories[pump_age + 1]]]

\* One run of the script ends: the page, and the exchange with the backend
\* it shows.
Rerun(t, page, request, response) ==
    /\ work' = [work EXCEPT ![t] = page]
    /\ req'  = [req  EXCEPT ![t] = request]
    /\ res'  = [res  EXCEPT ![t] = response]
    /\ UNCHANGED <<model, pc>>

\* The user moves sliders: the run shows the new labels and no result.
dash_move_sliders(t) ==
    /\ work[t].stage = "session"
    /\ \E sliders \in SliderSettings :
           Rerun(t, Page(sliders, work[t].history, "none"), NoReq, NoRes)

\* Faulty variant: the entry is appended whether or not a result came back.
dash_assess_recording_failures(t) ==
    /\ work[t].stage = "session"
    /\ Len(work[t].history) < MaxHistory
    /\ \E reachable \in BOOLEAN :
         LET sliders      == work[t].sliders
             observations ==
                 [rainfall         |-> percentage_to_category(sliders.rainfall_pct, 3),
                  turbidity        |-> percentage_to_category(sliders.turbidity_pct, 3),
                  surface_runoff   |-> percentage_to_category(sliders.runoff_pct, 2),
                  latrine_distance |-> percentage_to_category(sliders.latrine_pct, 2)]
             response     == IF reachable
                             THEN predict_endpoint(model, observations).outcome
                             ELSE Unreachable
             result       == response.value
             history_entry ==
                 [rainfall_pct  |-> sliders.rainfall_pct,
                  turbidity_pct |-> sliders.turbidity_pct,
                  runoff_pct    |-> sliders.runoff_pct,
                  latrine_pct   |-> sliders.latrine_pct,
                  risk_level    |-> IF response.http = 200 THEN result.risk_level
                                    ELSE "UNKNOWN",
                  probability   |-> IF response.http = 200
                                    THEN result.contamination_probability
                                    ELSE <<0, 1>>,
                  observations  |-> observations]
         IN Rerun(t,
                  Page(sliders,
                       Append(work[t].history, history_entry),
                       "assess"),
                  [op |-> "dash_assess", observations |-> observations],
                  response)

\* if assess_button: the observations are built from the sliders and sent;
\* a result is shown and appended to the history, and None (an error
\* message was shown by get_prediction) is not.
dash_assess(t) ==
    /\ work[t].stage = "session"
    /\ Len(work[t].history) < MaxHistory
    /\ \E reachable \in BOOLEAN :
         LET sliders      == work[t].sliders
             observations ==
                 [rainfall         |-> percentage_to_category(sliders.rainfall_pct, 3),
                  turbidity        |-> percentage_to_category(sliders.turbidity_pct, 3),
                  surface_runoff   |-> percentage_to_category(sliders.runoff_pct, 2),
                  latrine_distance |-> percentage_to_category(sliders.latrine_pct, 2)]
             response     == IF reachable
                             THEN predict_endpoint(model, observations).outcome
                             ELSE Unreachable
             result       == response.value
             history_entry ==
                 [rainfall_pct  |-> sliders.rainfall_pct,
                  turbidity_pct |-> sliders.turbidity_pct,
                  runoff_pct    |-> sliders.runoff_pct,
                  latrine_pct   |-> sliders.latrine_pct,
                  risk_level    |-> result.risk_level,
                  probability   |-> result.contamination_probability,
                  observations  |-> observations]
         IN Rerun(t,
                  Page(sliders,
                       IF response.http = 200
                       THEN Append(work[t].history, history_entry)
                       ELSE work[t].history,
                       "assess"),
                  [op |-> "dash_assess", observations |-> observations],
                  response)

\* if check_pump_button: the pump age category is sent; the result, if any,
\* is shown.
dash_check_pump(t) ==
    /\ work[t].stage = "session"
    /\ \E reachable \in BOOLEAN :
         LET pump_age == percentage_to_category(work[t].sliders.pump_age_pct, 3)
         IN Rerun(t, Page(work[t].sliders, work[t].history, "check_pump"),
                  [op |-> "dash_pump", pump_age |-> pump_age],
                  IF reachable THEN predict_pump_endpoint(model, pump_age)
                  ELSE Unreachable)

\* Clear History (the button is there when the history is not empty):
\* st.session_state.history = []; st.rerun().
dash_clear_history(t) ==
    /\ work[t].stage = "session"
    /\ work[t].history # << >>
    /\ Rerun(t, Page(work[t].sliders, << >>, "none"), NoReq, NoRes)

\* A session opens on the default sliders with an empty history.
InitDash ==
    /\ model = BuiltNetwork
    /\ pc    = [t \in Sequential |-> "idle"]
    /\ req   = [t \in Sequential |-> NoReq]
    /\ work  = [t \in Sequential |-> Page(SliderDefaults, << >>, "none")]
    /\ res   = [t \in Sequential |-> NoRes]

NextDash ==
    \/ \E t \in Sequential : dash_move_sliders(t)
    \/ \E t \in Sequential : dash_assess(t)
    \/ \E t \in Sequential : dash_check_pump(t)
    \/ \E t \in Sequential : dash_clear_history(t)

SpecDash == InitDash /\ [][NextDash]_vars

\* C24 (as claimed): in the percentage-slider dashboard the latrine_distance
\* state sent to the backend means what the category label shown to the user
\* says: whenever the label is 'Safe (>30m)' the value sent is 0 (the
\* model's Safe state) and whenever it is 'Too close (<30m)' the value sent
\* is 1 (the model's Risky state), for every slider value.  The model's
\* states are read off get_variable_info.
C24_LatrineStateMatchesLabel ==
    \A t \in DOMAIN req :
        req[t].op = "dash_assess"
        => LET sent == StateLabels["Latrine_Dist"][req[t].observations.latrine_distance + 1]
           IN /\ work[t].current_latrine = "Safe (>30m)" => sent = "Safe (>30m)"
              /\ work[t].current_latrine = "Too close (<30m)" => sent = "Risky (<30m)"

\* C30: in a dashboard session the assessment history changes only by
\* appending one entry when a risk assessment returns a result, or by being
\* emptied by Clear History; a failed or unreachable prediction request and
\* every pump-status check leave it unchanged (so its length is always the
\* number of successful assessments since the last clear).  Stated over the
\* runs of the script, each named by the button pressed for it.
C30_HistoryFrame ==
    [][ \A t \in Sequential :
          LET before == work[t].history
              after  == work'[t].history
          IN /\ ( work'[t].pressed = "assess" /\ res'[t].http = 200 )
                => /\ Len(after) = Len(before) + 1
                   /\ SubSeq(after, 1, Len(before)) = before
                   /\ after[Len(after)].risk_level = res'[t].value.risk_level
                   /\ after[Len(after)].probability
                        = res'[t].value.contamination_probability
                   /\ after[Len(after)].observations = req'[t].observations
             /\ ( work'[t].pressed = "assess" /\ res'[t].http # 200 )
                => after = before
             /\ work'[t].pressed = "check_pump" => after = before
             /\ work'[t].pressed = "none"
                => after = before \/ ( after = << >> /\ req'[t] = NoReq ) ]_vars

\* Two assessments, on different latrine slider positions, have returned
\* results; the second has just been appended.
C30_Witness ==
    /\ work[1].pressed = "assess"
    /\ res[1].http = 200
    /\ Len(work[1].history) = 2
    /\ work[1].history[1].latrine_pct # work[1].history[2].latrine_pct


-----------------------------------------------------------------------------
(* The evidence the endpoints of app.py hand to the model.                 *)

\* C25: every evidence mapping that /predict or /sensitivity-analysis hands
\* to the model is valid: its keys are exactly the supplied fields among
\* rainfall, turbidity, surface_runoff, latrine_distance mapped to Rainfall,
\* Turbidity, Surface_Runoff, Latrine_Dist (pump_age is never included),
\* each value lies in [0, cardinality) of its variable, and the target
\* Contamination is never a key, so these endpoints never raise a
\* query-input error.
C25_HandedEvidenceIsValid ==
    \A t \in DOMAIN pc :
        ( pc[t] = "responded" /\ req[t].op \in {"app_predict", "app_sensitivity"} )
        => LET observation == req[t].observation
               supplied == DOMAIN observation
                             \cap {"rainfall", "turbidity", "surface_runoff", "latrine_distance"}
               node == [rainfall |-> "Rainfall", turbidity |-> "Turbidity",
                        surface_runoff |-> "Surface_Runoff",
                        latrine_distance |-> "Latrine_Dist"]
           IN /\ \A e \in work[t].handed :
                     /\ DOMAIN e = {node[f] : f \in supplied}
                     /\ "Pump_Age" \notin DOMAIN e
                     /\ "Contamination" \notin DOMAIN e
                     /\ \A v \in DOMAIN e : 0 <= e[v] /\ e[v] < Card(model, v)
              /\ work[t].handed # {}
                 => \E e \in work[t].handed : \A f \in supplied : e[node[f]] = observation[f]
              /\ res[t].status \notin {"ValueError_both", "ValueError_unknown", "IndexError"}

\* A sensitivity analysis of a body with three of the four fields and
\* pump_age has handed the model its evidence and the perturbed ones.
C25_Witness ==
    /\ pc[1] = "responded"
    /\ req[1].op = "app_sensitivity"
    /\ DOMAIN req[1].observation = {"rainfall", "surface_runoff", "latrine_distance", "pump_age"}
    /\ res[1].http = 200
    /\ Cardinality(work[1].handed) = 5


-----------------------------------------------------------------------------
(* Contamination given its parents.                                        *)

WaterParents == {"Turbidity", "Surface_Runoff", "Latrine_Dist"}

PumpNodes == {"Pump_Age", "Pump_Failure"}

\* C26: when Turbidity = t, Surface_Runoff = r and Latrine_Dist = l are all
\* in the evidence, contamination_probability equals the Contamination CPT
\* entry for that parent assignment (row 1, column 4t + 2r + l), whatever
\* Rainfall, Pump_Age or Pump_Failure evidence is added; and Pump_Age /
\* Pump_Failure evidence never changes contamination_probability, for any
\* evidence.
C26_ParentsScreenOff ==
    \A t \in DOMAIN pc :
        ( /\ Responded(t, "predict_contamination")
          /\ IsValidEvidence(model, "Contamination", req[t].evidence) )
        => LET e   == req[t].evidence
               cpt == model.cpds["Contamination"]
           IN /\ res[t].status = "ok"
              /\ WaterParents \subseteq DOMAIN e
                 => res[t].value.contamination_probability
                      = Frac(cpt.values[2][4 * e["Turbidity"] + 2 * e["Surface_Runoff"]
                                           + e["Latrine_Dist"] + 1],
                             cpt.den)
              /\ DOMAIN e \cap PumpNodes # {}
                 => res[t].value.contamination_probability
                      = predict_contamination_risk(model,
                            [v \in DOMAIN e \ PumpNodes |-> e[v]]
                        ).value.contamination_probability

\* Every other node is observed, the water is slightly cloudy, there is
\* runoff and the latrine is too close: the table's 0.70.
C26_Witness ==
    /\ Responded(1, "predict_contamination")
    /\ DOMAIN req[1].evidence = Nodes \ {"Contamination"}
    /\ req[1].evidence["Turbidity"] = 1
    /\ req[1].evidence["Surface_Runoff"] = 1
    /\ req[1].evidence["Latrine_Dist"] = 1
    /\ res[1].status = "ok"
    /\ res[1].value.contamination_probability = <<7, 10>>


-----------------------------------------------------------------------------
(* Monotonicity in the observations.                                       *)

WaterObservables == {"Rainfall", "Turbidity", "Surface_Runoff", "Latrine_Dist"}

\* C27: holding the rest of the evidence fixed, raising the observed state
\* index of any one of Rainfall, Turbidity, Surface_Runoff or Latrine_Dist
\* never lowers contamination_probability, and therefore never lowers the
\* risk level, for every evidence subset of those four variables.
C27_MonotoneInObservations ==
    \A t \in DOMAIN pc :
        ( /\ Responded(t, "predict_contamination")
          /\ DOMAIN req[t].evidence \subseteq WaterObservables
          /\ IsValidEvidence(model, "Contamination", req[t].evidence) )
        => /\ res[t].status = "ok"
           /\ \A v \in DOMAIN req[t].evidence :
                  req[t].evidence[v] + 1 < Card(model, v)
                  => LET raised == predict_contamination_risk(model,
                                      [req[t].evidence EXCEPT ![v] = @ + 1])
                     IN /\ raised.status = "ok"
                        /\ FracLeq(res[t].value.contamination_probability,
                                   raised.value.contamination_probability)
                        /\ RiskRank(res[t].value.risk_level)
                             <= RiskRank(raised.value.risk_level)

\* The first test case of the module (no rain, clear water, far latrine):
\* each of its three observations can be raised.
C27_Witness ==
    /\ Responded(1, "predict_contamination")
    /\ req[1].evidence = [Rainfall |-> 0, Turbidity |-> 0, Latrine_Dist |-> 0]
    /\ res[1].status = "ok"
    /\ res[1].value.risk_level = "LOW"


-----------------------------------------------------------------------------
(* get_variable_info and the network.                                      *)

\* C28: get_variable_info agrees with the network: its key set equals the
\* set of network variables, and for every variable the number of listed
\* states equals the variable's cardinality in its CPD, so
\* sensitivity_analysis perturbs each evidence variable over exactly its
\* valid states (all but the observed one).
C28_VariableInfoAgreesWithNetwork ==
    \A t \in DOMAIN pc :
        /\ Responded(t, "get_variable_info")
           => /\ res[t].status = "ok"
              /\ DOMAIN res[t].value = DOMAIN model.cpds
              /\ DOMAIN res[t].value = {e[1] : e \in model.edges} \cup {e[2] : e \in model.edges}
              /\ \A var \in DOMAIN res[t].value :
                     Len(res[t].value[var].states) = model.cpds[var].variable_card
        /\ ( /\ Responded(t, "sensitivity_analysis")
             /\ req[t].target \in DOMAIN model.cpds
             /\ IsValidEvidence(model, req[t].target, req[t].evidence) )
           => /\ res[t].status = "ok"
              /\ \A var \in DOMAIN req[t].evidence :
                     {e[var] : e \in Perturbed(req[t].evidence, var)}
                       = (0 .. model.cpds[var].variable_card - 1) \ {req[t].evidence[var]}

\* The variable information has been returned.
C28_Witness ==
    /\ Responded(1, "get_variable_info")
    /\ Len(res[1].value["Turbidity"].states) = 3
    /\ Len(res[1].value["Latrine_Dist"].states) = 2


-----------------------------------------------------------------------------
(* The caller's evidence mapping.  req[t].evidence is the mapping the       *)
(* caller passed and still holds while the call runs.                      *)

\* C29: no model operation modifies the evidence mapping passed by the
\* caller: sensitivity_analysis perturbs only a private copy, so after it
\* returns (or fails) the caller's evidence equals its value before the
\* call, and evidence_used returned by predict_contamination_risk equals the
\* evidence passed in.
C29_CallerEvidenceUntouched ==
    /\ [][ \A t \in Threads : pc[t] = "running" => req'[t] = req[t] ]_vars
    /\ [] \A t \in Threads :
           /\ ( pc[t] = "running" /\ work[t].stage = "perturb" )
              => \A job \in work[t].todo :
                     /\ job[2] # req[t].evidence
                     /\ DOMAIN job[2] = DOMAIN req[t].evidence
           /\ ( pc[t] = "responded" /\ req[t].op = "predict_contamination"
                /\ res[t].status = "ok" )
              => res[t].value.evidence_used = req[t].evidence

\* A sensitivity analysis has returned and a failed one has raised; both
\* callers hold the evidence they passed.
C29_Witness ==
    /\ pc[1] = "responded" /\ pc[2] = "responded"
    /\ req[1].op = "sensitivity_analysis" /\ res[1].status = "ok"
    /\ req[1].evidence = [Surface_Runoff |-> 0, Latrine_Dist |-> 1]
    /\ req[2].op = "sensitivity_analysis" /\ res[2].status # "ok"
    /\ req[2].evidence = [Pump_Failure |-> 0]

====
